---- MODULE Spec2Model ----
(***************************************************************************)
(* The access-grant ledger of Heady_Chain.py (Block, HeadyChain and the    *)
(* command surface), as a state machine over the ledger directory, the     *)
(* ledger file and the HeadyChain object of each command invocation.       *)
(*                                                                         *)
(* Strings are sequences of one-character strings, so that concatenation,  *)
(* prefix tests and substring search are computed and not assumed.         *)
(***************************************************************************)
EXTENDS Integers, Sequences, FiniteSets, TLC

(***************************************************************************)
(* Bounds of the model.                                                    *)
(***************************************************************************)
\* longest chain an add may produce
MaxChain == 3
\* number of distinct clock readings datetime.now() may return
NumTimestamps == 2
\* largest nonce the mining loop is followed to
MaxNonce == 30
MaxStarts == 2

\* the process slots of the command invocations; an invocation takes the
\* lowest free slot
Procs == {1, 2}

(***************************************************************************)
(* Characters and strings.                                                 *)
(***************************************************************************)
DecDigits == <<"0", "1", "2", "3", "4", "5", "6", "7", "8", "9">>
HexDigits == <<"0", "1", "2", "3", "4", "5", "6", "7", "8", "9",
               "a", "b", "c", "d", "e", "f">>

\* ord(c) for the characters that occur in block strings
Ord ==
  ("0" :> 48) @@ ("1" :> 49) @@ ("2" :> 50) @@ ("3" :> 51) @@ ("4" :> 52) @@
  ("5" :> 53) @@ ("6" :> 54) @@ ("7" :> 55) @@ ("8" :> 56) @@ ("9" :> 57) @@
  (":" :> 58) @@ ("G" :> 71) @@
  ("a" :> 97) @@ ("b" :> 98) @@ ("c" :> 99) @@ ("d" :> 100) @@ ("e" :> 101) @@
  ("f" :> 102) @@ ("i" :> 105) @@ ("l" :> 108) @@ ("m" :> 109) @@
  ("n" :> 110) @@ ("s" :> 115)

\* str(n) of a non-negative int: its decimal digits, most significant first
RECURSIVE Str(_)
Str(n) ==
  IF n < 10 THEN <<DecDigits[n + 1]>>
  ELSE Str(n \div 10) \o <<DecDigits[(n % 10) + 1]>>

\* int(text) of a decimal numeral, as the JSON reader decodes a number
RECURSIVE ParseInt(_)
ParseInt(text) ==
  IF Len(text) = 0 THEN 0
  ELSE 10 * ParseInt(SubSeq(text, 1, Len(text) - 1)) + (Ord[text[Len(text)]] - 48)

\* s.startswith(t)
StartsWith(s, t) ==
  /\ Len(t) <= Len(s)
  /\ \A k \in 1..Len(t) : s[k] = t[k]

\* variant: a target one character short
Zeros_one_short(n) == [k \in 1..(n - 1) |-> "0"]

\* "0" * n
RECURSIVE Zeros(_)
Zeros(n) == IF n = 0 THEN <<>> ELSE <<"0">> \o Zeros(n - 1)

\* variant: == in place of in
StrIn_equal(t, s) == t = s

\* t in s, for Python strings: t occurs in s at some offset
StrIn(t, s) ==
  \E off \in 0..(Len(s) - Len(t)) :
    \A k \in 1..Len(t) : s[off + k] = t[k]

(***************************************************************************)
(* The digest.  hashlib.sha256(...).hexdigest() is modelled by a small     *)
(* deterministic digest of the same shape: it absorbs the encoded string   *)
(* one character at a time through a permutation of the residues modulo    *)
(* DigestModulus (cubing, DigestModulus being a prime = 2 mod 3) and       *)
(* prints the state as three lower-case hex digits.                        *)
(***************************************************************************)
DigestModulus == 101

\* the permutation of the residues: x to x cubed
Cube ==
  [x \in 0..(DigestModulus - 1) |->
     (((x * x) % DigestModulus) * x) % DigestModulus]

RECURSIVE Absorb(_, _)
Absorb(h, s) ==
  IF Len(s) = 0 THEN h
  ELSE Absorb(Cube[(h + Ord[Head(s)]) % DigestModulus], Tail(s))

HexDigest(h) ==
  <<HexDigits[((h \div 256) % 16) + 1],
    HexDigits[((h \div 16) % 16) + 1],
    HexDigits[(h % 16) + 1]>>

sha256_hexdigest(s) == HexDigest(Absorb(0, s))

(***************************************************************************)
(* class Block                                                             *)
(***************************************************************************)
\* f"{self.index}{self.timestamp}{self.data}{self.prev_hash}{self.nonce}"
block_str(b) ==
  Str(b.index) \o b.timestamp \o b.data \o b.prev_hash \o Str(b.nonce)

compute_hash(b) == sha256_hexdigest(block_str(b))

\* variant: the nonce starts one above the index of the block
Block_counted(index, timestamp, data, prev_hash) ==
  LET b == [index |-> index, timestamp |-> timestamp, data |-> data,
            prev_hash |-> prev_hash, nonce |-> index + 1, hash |-> <<>>]
  IN  [b EXCEPT !.hash = compute_hash(b)]

\* Block.__init__
Block(index, timestamp, data, prev_hash) ==
  LET b == [index |-> index, timestamp |-> timestamp, data |-> data,
            prev_hash |-> prev_hash, nonce |-> 0, hash |-> <<>>]
  IN  [b EXCEPT !.hash = compute_hash(b)]

\* the default value of mine's parameter
difficulty == 2

\* Block.mine: the while loop, followed up to nonce MaxNonce
RECURSIVE mine(_, _)
mine(b, d) ==
  IF StartsWith(b.hash, Zeros(d)) \/ b.nonce >= MaxNonce THEN b
  ELSE LET b1 == [b EXCEPT !.nonce = b.nonce + 1]
       IN  mine([b1 EXCEPT !.hash = compute_hash(b1)], d)

\* mine returned: the loop's exit condition holds
Returned(b, d) == StartsWith(b.hash, Zeros(d))

(***************************************************************************)
(* The persisted file: json.dump writes a list of objects, one per block,  *)
(* with the six attributes of the block; ints are written as decimal       *)
(* numerals and read back by parsing them.                                 *)
(***************************************************************************)
JNum(n) == [t |-> "num", text |-> Str(n)]
JStr(s) == [t |-> "str", text |-> s]
JDecode(v) == IF v.t = "num" THEN ParseInt(v.text) ELSE v.text

\* variant: nonce is left out of the written record
json_block_no_nonce(b) ==
  [index |-> JNum(b.index), timestamp |-> JStr(b.timestamp),
   data |-> JStr(b.data), prev_hash |-> JStr(b.prev_hash),
   hash |-> JStr(b.hash)]

\* vars(b), as json.dump encodes it
json_block(b) ==
  [index |-> JNum(b.index), timestamp |-> JStr(b.timestamp),
   data |-> JStr(b.data), prev_hash |-> JStr(b.prev_hash),
   nonce |-> JNum(b.nonce), hash |-> JStr(b.hash)]

\* variant: the newest block is written first
json_dump_reversed(ch) ==
  [i \in 1..Len(ch) |-> json_block(ch[Len(ch) + 1 - i])]

\* json.dump([vars(b) for b in self.chain], f, indent=4)
json_dump(ch) == [i \in 1..Len(ch) |-> json_block(ch[i])]

\* the file states open() and json.load tell apart
NoFile == [state |-> "missing", doc |-> <<>>]
Garbage == [state |-> "garbage", doc |-> <<>>]
JsonFile(doc) == [state |-> "json", doc |-> doc]

\* b.get(key, default)
Get(o, key, default) == IF key \in DOMAIN o THEN JDecode(o[key]) ELSE default

\* variant: the block is rebuilt by the constructor alone, nonce and hash
\* are not restored
load_block_rebuilt(o) ==
  Block(JDecode(o.index), JDecode(o.timestamp),
        JDecode(o.data), JDecode(o.prev_hash))

\* variant: the stored hash is restored, the stored nonce is not
load_block_hash_only(o) ==
  LET block == Block(JDecode(o.index), JDecode(o.timestamp),
                     JDecode(o.data), JDecode(o.prev_hash))
  IN  [block EXCEPT !.hash = Get(o, "hash", compute_hash(block))]

\* the body of load's for loop: one record to one Block
load_block(o) ==
  LET block == Block(JDecode(o.index), JDecode(o.timestamp),
                     JDecode(o.data), JDecode(o.prev_hash))
      b1 == [block EXCEPT !.nonce = Get(o, "nonce", 0)]
  IN  [b1 EXCEPT !.hash = Get(o, "hash", compute_hash(b1))]

\* b['index'], b['timestamp'], b['data'], b['prev_hash'] do not raise KeyError
HasKeys(o) == {"index", "timestamp", "data", "prev_hash"} \subseteq DOMAIN o

(***************************************************************************)
(* class HeadyChain, as functions of the object's chain and the file.      *)
(***************************************************************************)
GenesisData == <<"G", "e", "n", "e", "s", "i", "s">>
Sentinel == <<"0">>

\* the <<role, user>> arguments the command surface is driven with:
\* admin alice, adm alice, admin al
Args ==
  {<<<<"a", "d", "m", "i", "n">>, <<"a", "l", "i", "c", "e">>>>,
   <<<<"a", "d", "m">>, <<"a", "l", "i", "c", "e">>>>,
   <<<<"a", "d", "m", "i", "n">>, <<"a", "l">>>>}

\* str(datetime.datetime.now()): the reading of a wall clock, any of
\* NumTimestamps readings at any call
Timestamps == {Str(k) : k \in 1..NumTimestamps}

\* variant: user and role in the wrong order
Payload_swapped(r, u) == u \o <<":">> \o r

\* f"{r}:{u}"
Payload(r, u) == r \o <<":">> \o u

\* variant: only the newest block is written
save_tail_only(ch) ==
  JsonFile(json_dump(IF Len(ch) = 0 THEN ch ELSE <<ch[Len(ch)]>>))

\* HeadyChain.save: the file content after the whole-file rewrite
save(ch) == JsonFile(json_dump(ch))

\* variant: the genesis block is appended and not saved
gen_not_saved(ch, now) ==
  [chain |-> Append(ch, Block(0, now, GenesisData, Sentinel)),
   file |-> NoFile, wrote |-> FALSE, raised |-> FALSE]

\* HeadyChain.gen: append a genesis block and save
gen(ch, now) ==
  LET ch1 == Append(ch, Block(0, now, GenesisData, Sentinel))
  IN  [chain |-> ch1, file |-> save(ch1), wrote |-> TRUE, raised |-> FALSE]

\* the blocks load's for loop has appended when it stops: all of them, or
\* those before the first record that raises KeyError
RECURSIVE load_records(_, _)
load_records(doc, acc) ==
  IF Len(doc) = 0 \/ ~HasKeys(Head(doc)) THEN acc
  ELSE load_records(Tail(doc), Append(acc, load_block(Head(doc))))

\* variant: the except clause swallows the error and does not call gen
load_no_fallback(ch, f, now) ==
  IF f.state # "json"
  THEN [chain |-> ch, file |-> f, wrote |-> FALSE, raised |-> FALSE]
  ELSE [chain |-> load_records(f.doc, <<>>), file |-> f, wrote |-> FALSE,
        raised |-> \E i \in 1..Len(f.doc) : ~HasKeys(f.doc[i])]

\* variant: every file is taken as unreadable and replaced by a fresh
\* genesis chain
load_regenerates(ch, f, now) == gen(ch, now)

\* HeadyChain.load: ch is self.chain on entry
load(ch, f, now) ==
  IF f.state # "json"
  THEN \* FileNotFoundError or json.JSONDecodeError
       gen(ch, now)
  ELSE [chain |-> load_records(f.doc, <<>>), file |-> f, wrote |-> FALSE,
        raised |-> \E i \in 1..Len(f.doc) : ~HasKeys(f.doc[i])]

\* variant: only the newest block is looked at
verify_from_tail_only(ch, i, t) == i > 0 /\ StrIn(t, ch[i].data)

\* HeadyChain.verify: reversed(self.chain), first match returns True
RECURSIVE verify_from(_, _, _)
verify_from(ch, i, t) ==
  IF i = 0 THEN FALSE
  ELSE IF StrIn(t, ch[i].data) THEN TRUE
  ELSE verify_from(ch, i - 1, t)

\* variant: a chain whose links or hashes do not check is refused
verify_checked(ch, r, u) ==
  /\ \A i \in 2..Len(ch) :
       ch[i].prev_hash = ch[i - 1].hash /\ ch[i].hash = compute_hash(ch[i])
  /\ verify_from(ch, Len(ch), Payload(r, u))

verify(ch, r, u) == verify_from(ch, Len(ch), Payload(r, u))

(***************************************************************************)
(* The other command line tools of the repository and the files they work  *)
(* on.  A path is the sequence of its names below the directory the        *)
(* ledger is run in; a disk maps every path to what is there.              *)
(***************************************************************************)
\* LEDGER_DIR = "./Logs/Ledger"
LEDGER_DIR == <<"Logs", "Ledger">>

\* f"{LEDGER_DIR}/chain_head.json"
ChainHead == LEDGER_DIR \o <<"chain_head.json">>

\* the directories a tool is started in, or installed under: the directory
\* the ledger is run in and the ledger directory itself
Places == {<<>>, LEDGER_DIR}

\* a directory, and a text file of KEY=value lines
Directory == [state |-> "dir", doc |-> <<>>]
Line(key, value) == [key |-> key, value |-> value]
Text(lines) == [state |-> "text", doc |-> lines]

\* the names run_build_repair is about, in the order it handles them
RequiredNames ==
  <<"requirements.txt", "package.json", "heady-manager.js",
    "src/process_data.py", "render.yaml">>

\* PROJECT_ROOT / name
Relative ==
  [name \in {RequiredNames[i] : i \in DOMAIN RequiredNames} |->
     IF name = "src/process_data.py" THEN <<"src", "process_data.py">>
     ELSE <<name>>]

required_files(root) == [name \in DOMAIN Relative |-> root \o Relative[name]]

\* the two readings of the clock a backup is named after
Stamps == {"t1", "t2"}
BackupName == [t \in Stamps |-> IF t = "t1" THEN ".env.local.t1.bak"
                                 ELSE ".env.local.t2.bak"]

\* variant: the scaffold also creates the log directories
ScaffoldDirs_logs ==
  <<<<"src">>, <<"public">>, <<".github">>, <<".github", "workflows">>,
    <<"docs">>, <<"Logs">>, <<"Logs", "Ledger">>>>

\* ["src", "public", ".github/workflows", "docs"], with parents=True
ScaffoldDirs ==
  <<<<"src">>, <<"public">>, <<".github">>, <<".github", "workflows">>,
    <<"docs">>>>

AllPaths ==
  LET ToolNames ==
        {Relative[name] : name \in DOMAIN Relative}
          \cup {ScaffoldDirs[i] : i \in DOMAIN ScaffoldDirs}
          \cup {<<".env.local">>, <<".env">>, <<".gitignore">>,
                <<"secrets_dump.txt">>}
          \cup {<<BackupName[t]>> : t \in Stamps}
  IN  {LEDGER_DIR, ChainHead}
        \cup {pl \o n : pl \in Places, n \in ToolNames}
ToolPaths == AllPaths \ {LEDGER_DIR, ChainHead}

\* os.path.exists(path), Path.exists()
exists(d, path) == path \in DOMAIN d /\ d[path].state # "missing"

\* open(path, 'w').write(text), Path.write_text(text)
write(d, path, text) == [d EXCEPT ![path] = text]

\* Path.mkdir(exist_ok=True): FileExistsError when the path is there and
\* is not a directory
mkdir(d, path) ==
  IF ~exists(d, path) THEN [disk |-> write(d, path, Directory), raised |-> FALSE]
  ELSE [disk |-> d, raised |-> d[path].state # "dir"]

\* what a generate function writes, and what somebody else has written
Generated(name) == Text(<<Line(name, "generated")>>)
Foreign(name) == Text(<<Line(name, "kept")>>)

\* variant: the audit reports every required file as missing
audit_infrastructure_all(d, root) == DOMAIN Relative

\* the names appended to missing; run_build_repair only tests membership
audit_infrastructure(d, root) ==
  {name \in DOMAIN Relative : ~exists(d, required_files(root)[name])}

\* generate_requirements, generate_package_json, generate_heady_manager,
\* generate_render_yaml: open(PROJECT_ROOT / name, 'w') and write
generate(d, root, name) ==
  [disk |-> write(d, root \o Relative[name], Generated(name)),
   raised |-> FALSE]

\* src_dir.mkdir(exist_ok=True), then open(src_dir / "process_data.py", 'w')
generate_process_data(d, root) ==
  LET m == mkdir(d, root \o <<"src">>)
  IN  IF m.raised THEN m
      ELSE generate(m.disk, root, "src/process_data.py")

\* one `if name in missing: generate_...()` of run_build_repair, not
\* reached once an exception has left the function
repair(acc, root, missing, name) ==
  IF acc.raised \/ name \notin missing THEN acc
  ELSE LET g == IF name = "src/process_data.py"
                THEN generate_process_data(acc.disk, root)
                ELSE generate(acc.disk, root, name)
       IN  [disk |-> g.disk, raised |-> g.raised,
            made |-> IF g.raised THEN acc.made ELSE acc.made \cup {name}]

run_build_repair(d, root) ==
  LET missing == audit_infrastructure(d, root)
      s0 == [disk |-> d, raised |-> FALSE, made |-> {}]
      s1 == repair(s0, root, missing, RequiredNames[1])
      s2 == repair(s1, root, missing, RequiredNames[2])
      s3 == repair(s2, root, missing, RequiredNames[3])
      s4 == repair(s3, root, missing, RequiredNames[4])
  IN  repair(s4, root, missing, RequiredNames[5])

\* re.search("^KEY=", text, re.MULTILINE), `item in content`
Matches(lines, key) == \E i \in DOMAIN lines : lines[i].key = key

\* the values secrets.token_urlsafe returns; the tokens of one run are
\* taken as one draw
Secrets == {"s1", "s2"}

\* secrets_config of rotate_secrets, in its order
RotatedKeys ==
  <<"JWT_SECRET_KEY", "HEADY_AUTH_TOKEN", "ENCRYPTION_KEY",
    "WEBHOOK_SIGNATURE_SECRET">>

\* variant: the new value is always appended, the old line stays
rotate_key_appending(lines, key, val) == Append(lines, Line(key, val))

\* re.sub on every KEY= line when there is one, else new_content += KEY=val
rotate_key(lines, key, val) ==
  IF Matches(lines, key)
  THEN [i \in DOMAIN lines |->
          IF lines[i].key = key THEN Line(key, val) ELSE lines[i]]
  ELSE Append(lines, Line(key, val))

\* variant: the backup is created without the content
copy2_empty(d, src, dst) == write(d, dst, Text(<<>>))

\* shutil.copy2(src, dst)
copy2(d, src, dst) == write(d, dst, d[src])

\* rotate_secrets() started in cwd at the clock reading stamp
rotate_secrets(d, cwd, stamp, val) ==
  LET env_path == cwd \o <<".env.local">>
      backup_path == cwd \o <<BackupName[stamp]>>
  IN  IF ~exists(d, env_path) THEN d
      ELSE LET copied == copy2(d, env_path, backup_path)
               c1 == rotate_key(d[env_path].doc, RotatedKeys[1], val)
               c2 == rotate_key(c1, RotatedKeys[2], val)
               c3 == rotate_key(c2, RotatedKeys[3], val)
               c4 == rotate_key(c3, RotatedKeys[4], val)
           IN  write(copied, env_path, Text(c4))

\* secrets_config of generate_missing_secrets, upper case, in its order
SecretNames ==
  <<"JWT_SECRET_KEY", "HEADY_AUTH_TOKEN", "WEBHOOK_SIGNATURE_SECRET",
    "ENCRYPTION_KEY", "POSTGRES_PASSWORD", "REDIS_PASSWORD">>

\* main() of generate_missing_secrets.py started in cwd
generate_missing_secrets(d, cwd, val) ==
  LET env_path == cwd \o <<".env.local">>
  IN  IF ~exists(d, env_path)
      THEN write(d, env_path,
                 Text([i \in DOMAIN SecretNames |-> Line(SecretNames[i], val)]))
      ELSE d

RECURSIVE make_dirs(_, _, _)
\* (root / d).mkdir(parents=True, exist_ok=True) for the directories from
\* the i-th on, until one raises
make_dirs(d, cwd, i) ==
  IF i > Len(ScaffoldDirs) THEN [disk |-> d, raised |-> FALSE]
  ELSE LET m == mkdir(d, cwd \o ScaffoldDirs[i])
       IN  IF m.raised THEN m ELSE make_dirs(m.disk, cwd, i + 1)

\* gitignore.touch(); the content is read once, every item it lacks is
\* appended
setup_gitignore(d, cwd) ==
  LET gitignore == cwd \o <<".gitignore">>
      touched == IF exists(d, gitignore) THEN d
                 ELSE write(d, gitignore, Text(<<>>))
      content == touched[gitignore].doc
      add(lines, item) ==
        IF Matches(content, item) THEN lines ELSE Append(lines, Line(item, ""))
  IN  write(touched, gitignore,
            Text(add(add(add(content, ".env"), ".venv"),
                     "secrets_dump.txt")))

\* lines[i] = KEY=value for the first line of that key, else append
ingest_key(lines, l) ==
  IF Matches(lines, l.key)
  THEN LET first == CHOOSE i \in DOMAIN lines :
                      /\ lines[i].key = l.key
                      /\ \A j \in 1..(i - 1) : lines[j].key # l.key
       IN  [lines EXCEPT ![first] = l]
  ELSE Append(lines, l)

RECURSIVE ingest(_, _)
ingest(lines, keys) ==
  IF Len(keys) = 0 THEN lines
  ELSE ingest(ingest_key(lines, Head(keys)), Tail(keys))

\* scaffold_project() started in cwd, with the two answers typed; the
\* template of secrets_dump.txt has comment lines only, and keys are the
\* lines of the dump the regular expression takes as KEY=value
scaffold_project(d, cwd, scan, delete) ==
  LET dump_file == cwd \o <<"secrets_dump.txt">>
      env_file == cwd \o <<".env">>
      made == make_dirs(d, cwd, 1)
      ignored == setup_gitignore(made.disk, cwd)
      dumped == IF exists(ignored, dump_file) THEN ignored
                ELSE write(ignored, dump_file,
                           Text(<<Line("#", "SECRET DUMP AREA")>>))
      keys == SelectSeq(dumped[dump_file].doc, LAMBDA l : l.key # "#")
      env_content == IF exists(dumped, env_file) THEN dumped[env_file].doc
                     ELSE <<Line("#", "HEADY SYSTEM SECRETS")>>
      secured == write(dumped, env_file, Text(ingest(env_content, keys)))
  IN  IF made.raised THEN made
      ELSE IF scan # "y" \/ Len(keys) = 0
      THEN [disk |-> dumped, raised |-> FALSE]
      ELSE IF delete # "y" THEN [disk |-> secured, raised |-> FALSE]
      ELSE [disk |-> write(secured, dump_file, NoFile), raised |-> FALSE]

\* the three ports main() of verify_full_stack.py checks
Services == {"PostgreSQL", "Redis", "IDE Backend"}

\* main() of verify_full_stack.py: the exit status; the answer of the
\* health check is printed and not used
verify_full_stack(reachable, healthy) ==
  IF Services \subseteq reachable THEN 0 ELSE 1

\* None, and the text a command prints
None == <<>>

\* the git commands consolidate runs
GitCommands ==
  {"rev-parse", "show-current", "status", "remote", "branch", "branch -r",
   "log", "merge", "merge --abort"}

\* Consolidator._exec: the output of the command, None when it exits with
\* an error (subprocess.CalledProcessError is caught)
_exec(cmd, failing) ==
  IF cmd \in failing THEN [ret |-> None, raised |-> FALSE]
  ELSE [ret |-> IF cmd = "rev-parse" THEN <<"true">>
                ELSE IF cmd = "show-current" THEN <<"dev">>
                ELSE IF cmd \in {"status", "merge --abort"} THEN None
                ELSE <<cmd>>,
        raised |-> FALSE]

\* Consolidator.check_git_status: the report lines and the return value
check_git_status(failing) ==
  LET result == _exec("rev-parse", failing)
      branch == _exec("show-current", failing)
      status == _exec("status", failing)
      remotes == _exec("remote", failing)
  IN  IF result.raised \/ result.ret # <<"true">>
      THEN [report |-> <<"## Git Status Check", "- Not a git repository">>,
            ret |-> FALSE, raised |-> result.raised]
      ELSE [report |->
              <<"## Git Status Check", "- Current Branch">>
                \o (IF status.ret # None THEN <<"- Uncommitted changes">>
                    ELSE <<"- Working tree clean">>)
                \o (IF remotes.ret # None THEN <<"- Remotes">> ELSE <<>>),
            ret |-> TRUE,
            raised |-> branch.raised \/ status.raised \/ remotes.raised]

\* analyze_branches, analyze_commits and check_merge_conflicts
analyze(failing) ==
  LET local == _exec("branch", failing)
      remote == _exec("branch -r", failing)
      log == _exec("log", failing)
      current == _exec("show-current", failing)
      merged == _exec("merge", failing)
      aborted == _exec("merge --abort", failing)
  IN  [report |->
         <<"## Branch Analysis">>
           \o (IF local.ret # None THEN <<"- Local branches">> ELSE <<>>)
           \o (IF remote.ret # None THEN <<"- Remote branches">> ELSE <<>>)
           \o <<"## Recent Commits">>
           \o (IF log.ret # None THEN <<"- commit">> ELSE <<>>)
           \o <<"## Merge Conflict Check">>
           \o (IF current.ret = <<"main">>
               THEN <<"- Already on target branch">>
               ELSE <<"- Clean merge expected">>),
       raised |-> local.raised \/ remote.raised \/ log.raised
                    \/ current.raised \/ merged.raised \/ aborted.raised]

\* Consolidator.generate_report: OUTPUT_DIR and datetime are looked up in
\* the module's globals when the function runs; a name that is not bound
\* there raises NameError before anything is written. The names bound in
\* Consolidator.py are its imports, assignments, class and function
generate_report(d, report) ==
  IF ~({"OUTPUT_DIR", "datetime"} \subseteq
         {"os", "subprocess", "logging", "sys", "Path", "SOURCE_A_MISSION",
          "SOURCE_B_INFRA", "TARGET_GOLDEN", "logger", "Consolidator",
          "consolidate"})
  THEN [disk |-> d, raised |-> TRUE, ret |-> None]
  ELSE [disk |-> write(d, <<"OUTPUT_DIR", "consolidation.md">>,
                       Text(<<Line("report", report)>>)),
        raised |-> FALSE, ret |-> <<"OUTPUT_DIR", "consolidation.md">>]

\* Consolidator.consolidate on a workspace where the git commands in
\* failing exit with an error
consolidate(d, failing) ==
  LET checked == check_git_status(failing)
      rest == IF checked.ret THEN analyze(failing)
              ELSE [report |-> <<"## Directory Analysis", "- Python files",
                                 "- YAML files">>,
                    raised |-> FALSE]
      written == generate_report(d, checked.report \o rest.report)
  IN  IF checked.raised \/ rest.raised
      THEN [disk |-> d, raised |-> "CalledProcessError", ret |-> None]
      ELSE IF written.raised
      THEN [disk |-> d, raised |-> "NameError", ret |-> None]
      ELSE [disk |-> written.disk, raised |-> "no", ret |-> written.ret]

(***************************************************************************)
(* State.                                                                  *)
(***************************************************************************)
VARIABLES
  dir,      \* os.path.exists(LEDGER_DIR)
  file,     \* the content of LEDGER_DIR/chain_head.json
  chain,    \* chain[p]: self.chain of the HeadyChain object of process p
  pc,       \* pc[p]: "none" (no object), "ready" (constructed), "aborted"
  last,     \* the last operation recorded: its arguments, the state it
            \* started from and its return value
  granted,  \* <<r, u>> for every add(r, u) that has returned, when
            \* invocations are taken as single steps
  saved,    \* the chain handed to the last save, when invocations are taken
            \* as single steps
  loaded,   \* loaded[p]: the number of blocks the object of process p has
            \* read from the file, when invocations are taken as single steps
  inv,      \* inv[p]: the command invocation process p runs: its arguments,
            \* the storage it started on, the calls it has made
  started,  \* the number of step-by-step invocations started so far
  blk,      \* a Block object on its own, with the position of a call of
            \* mine on it, when the mining loop is taken step by step
  tree,     \* tree[path]: what is at a path the other command line tools
            \* of the repository work on
  tool      \* the last run of one of those tools: which, what it started
            \* from, what it created and how it ended

vars ==
  <<dir, file, chain, pc, last, granted, saved, loaded, inv, started, blk,
    tree, tool>>

NoArg == <<>>

\* no Block object is followed on its own
NoBlock == [state |-> "none"]

\* the paths of the tools with nothing at any of them
NoTree == [path \in ToolPaths |-> NoFile]

\* no tool has run
NoTool ==
  [op |-> "none", root |-> <<>>, pre |-> <<>>, made |-> {},
   out |-> "none", ret |-> None, prev |-> "none"]

\* a process slot no invocation runs in
NoInv ==
  [args |-> <<>>, startDir |-> FALSE, startFile |-> NoFile,
   adds |-> 0, verifies |-> 0, midSave |-> FALSE, addFile |-> NoFile,
   after |-> [op |-> "none", pre |-> <<>>]]

Op(op, p, r, u, ret) ==
  [op |-> op, p |-> p, role |-> r, user |-> u, ret |-> ret,
   pre |-> chain[p], preDir |-> dir, preFile |-> file]

\* the storage location before the program has ever run on it, or after
\* its file was lost or damaged
Init ==
  /\ \E s \in {<<FALSE, NoFile>>, <<TRUE, NoFile>>, <<TRUE, Garbage>>} :
       dir = s[1] /\ file = s[2]
  /\ chain = [p \in Procs |-> <<>>]
  /\ pc = [p \in Procs |-> "none"]
  /\ last = [op |-> "none", p |-> 1, role |-> NoArg, user |-> NoArg,
             ret |-> FALSE, pre |-> <<>>, preDir |-> dir, preFile |-> file]
  /\ granted = {}
  /\ saved = <<>>
  /\ loaded = [p \in Procs |-> 0]
  /\ inv = [p \in Procs |-> NoInv]
  /\ started = 0
  /\ blk = NoBlock
  /\ tree = NoTree
  /\ tool = NoTool

(***************************************************************************)
(* Operations.                                                             *)
(***************************************************************************)
\* hc = HeadyChain(): HeadyChain.__init__ in a process that has no object
Initialize(p) ==
  /\ pc[p] = "none"
  /\ \E now \in Timestamps :
       LET r == IF ~dir THEN gen(<<>>, now) ELSE load(<<>>, file, now)
       IN  /\ dir' = TRUE
           /\ file' = r.file
           /\ chain' = [chain EXCEPT ![p] = r.chain]
           /\ pc' = [pc EXCEPT ![p] = IF r.raised THEN "aborted" ELSE "ready"]
           /\ saved' = IF r.wrote THEN r.chain ELSE saved
           /\ loaded' = [loaded EXCEPT ![p] = IF r.wrote THEN 0 ELSE Len(r.chain)]
  /\ last' = Op("init", p, NoArg, NoArg, FALSE)
  /\ UNCHANGED <<granted, inv, started, blk, tree, tool>>

\* one invocation at a time
Construct(p) ==
  /\ \A q \in Procs : pc[q] = "none" /\ p <= q
  /\ Initialize(p)

\* hc.add(r, u)
Add(p, r, u) ==
  /\ pc[p] = "ready"
  /\ Len(chain[p]) < MaxChain
  /\ IF Len(chain[p]) = 0
     THEN \* self.chain[-1] raises IndexError
          /\ pc' = [pc EXCEPT ![p] = "aborted"]
          /\ UNCHANGED <<dir, file, chain, granted, saved>>
     ELSE \E now \in Timestamps :
            LET parent == chain[p][Len(chain[p])]
                b == mine(Block(parent.index + 1, now, Payload(r, u), parent.hash),
                          difficulty)
            IN  /\ Returned(b, difficulty)
                /\ chain' = [chain EXCEPT ![p] = Append(chain[p], b)]
                /\ file' = save(chain'[p])
                /\ saved' = chain'[p]
                /\ granted' = granted \cup {<<r, u>>}
                /\ UNCHANGED <<dir, pc>>
  /\ last' = Op("add", p, r, u, FALSE)
  /\ UNCHANGED <<loaded, inv, started, blk, tree, tool>>

\* hc.verify(r, u)
Verify(p, r, u) ==
  /\ pc[p] = "ready"
  /\ last' = Op("verify", p, r, u, verify(chain[p], r, u))
  /\ UNCHANGED <<dir, file, chain, pc, granted, saved, loaded, inv, started, blk, tree, tool>>

\* the process of the invocation ends
Exit(p) ==
  /\ pc[p] # "none"
  /\ pc' = [pc EXCEPT ![p] = "none"]
  /\ chain' = [chain EXCEPT ![p] = <<>>]
  /\ loaded' = [loaded EXCEPT ![p] = 0]
  /\ last' = Op("exit", p, NoArg, NoArg, FALSE)
  /\ UNCHANGED <<dir, file, granted, saved, inv, started, blk, tree, tool>>

Next ==
  \/ \E p \in Procs : Construct(p)
  \/ \E p \in Procs, a \in Args : Add(p, a[1], a[2])
  \/ \E p \in Procs, a \in Args : Verify(p, a[1], a[2])
  \/ \E p \in Procs : Exit(p)

Spec == Init /\ [][Next]_vars

(***************************************************************************)
(* Vocabulary of the properties.                                           *)
(***************************************************************************)
Ready == {p \in Procs : pc[p] = "ready"}

\* the blocks a file holds, as six-field records; none when it is not a
\* parseable ledger
Persisted(f) ==
  IF f.state = "json"
  THEN [i \in 1..Len(f.doc) |->
          [index |-> JDecode(f.doc[i].index),
           timestamp |-> JDecode(f.doc[i].timestamp),
           data |-> JDecode(f.doc[i].data),
           prev_hash |-> JDecode(f.doc[i].prev_hash),
           nonce |-> JDecode(f.doc[i].nonce),
           hash |-> JDecode(f.doc[i].hash)]]
  ELSE <<>>

IsPrefix(s, t) == Len(s) <= Len(t) /\ \A i \in 1..Len(s) : s[i] = t[i]

\* t is a contiguous substring of s
Occurs(t, s) == \E i \in 1..(Len(s) + 1), j \in 0..Len(s) : SubSeq(s, i, j) = t

Linked(ch) ==
  \A i \in 2..Len(ch) :
    /\ ch[i].prev_hash = ch[i - 1].hash
    /\ ch[i].index = ch[i - 1].index + 1

IsGenesis(b) ==
  b.index = 0 /\ b.prev_hash = <<"0">> /\ b.data = <<"G", "e", "n", "e", "s", "i", "s">>

Admin == <<"a", "d", "m", "i", "n">>
Adm == <<"a", "d", "m">>
Alice == <<"a", "l", "i", "c", "e">>

\* the last operation was an initialization that read a ledger file written
\* by an earlier invocation
Reloaded == last.op = "init" /\ last.preFile.state = "json"

(***************************************************************************)
(* C1: with a single writer and no interrupted write, in every constructed *)
(* ledger (fresh, after add, or reloaded from the file) every block at a   *)
(* position i > 0 has prev_hash equal to the hash of the block before it   *)
(* and index one more than that block's index.                             *)
(***************************************************************************)
C1_ChainLinkage == \A p \in Ready : Linked(chain[p])

C1_Witness ==
  /\ Reloaded
  /\ pc[last.p] = "ready"
  /\ Len(chain[last.p]) = 3
  /\ chain[last.p][2].nonce > 0

(***************************************************************************)
(* C2: with a single writer, in every constructed ledger every block at a  *)
(* position i > 0 has a hash whose first two hex characters are both "0",  *)
(* in memory right after add and after the chain is reloaded from the      *)
(* file; the genesis block is exempt.                                      *)
(***************************************************************************)
C2_ProofOfWork ==
  \A p \in Ready :
    \A i \in 2..Len(chain[p]) :
      /\ Len(chain[p][i].hash) >= 2
      /\ chain[p][i].hash[1] = "0"
      /\ chain[p][i].hash[2] = "0"

\* a reloaded chain of two mined blocks behind a genesis block that is not
\* itself sealed
C2_Witness ==
  /\ Reloaded
  /\ pc[last.p] = "ready"
  /\ Len(chain[last.p]) = 3
  /\ chain[last.p][1].hash[2] # "0"

(***************************************************************************)
(* C3: in every state reached through genesis creation, add, save and      *)
(* load, the hash of each block of a constructed ledger is the digest of   *)
(* its current index, timestamp, data, prev_hash and nonce, blocks         *)
(* reconstructed by load included.                                         *)
(***************************************************************************)
C3_HashIsDigest ==
  \A p \in Ready :
    \A i \in 1..Len(chain[p]) :
      chain[p][i].hash =
        sha256_hexdigest(Str(chain[p][i].index) \o chain[p][i].timestamp \o
                         chain[p][i].data \o chain[p][i].prev_hash \o
                         Str(chain[p][i].nonce))

\* a reloaded chain holding a block whose nonce has two digits
C3_Witness ==
  /\ Reloaded
  /\ pc[last.p] = "ready"
  /\ \E i \in 1..Len(chain[last.p]) : chain[last.p][i].nonce >= 10

(***************************************************************************)
(* C4: an initialization that finds the ledger directory absent creates    *)
(* it and ends with a chain of exactly one block with index 0, prev_hash   *)
(* "0", data "Genesis" and nonce 0, and the file holds that one block.     *)
(***************************************************************************)
C4_GenesisOnAbsent ==
  (last.op = "init" /\ ~last.preDir) =>
    /\ dir
    /\ pc[last.p] = "ready"
    /\ Len(chain[last.p]) = 1
    /\ IsGenesis(chain[last.p][1])
    /\ chain[last.p][1].nonce = 0
    /\ Persisted(file) = chain[last.p]

C4_Witness == last.op = "init" /\ ~last.preDir /\ Len(chain[last.p]) = 1

(***************************************************************************)
(* C5: after an initialization has completed, from an absent directory, a  *)
(* well-formed file, or a missing or unparseable file, the chain is never  *)
(* empty and its first block has index 0, prev_hash "0" and data           *)
(* "Genesis"; no operation aborts for want of a tail block.                *)
(***************************************************************************)
C5_GenesisFirst ==
  \A p \in Procs :
    /\ pc[p] # "aborted"
    /\ pc[p] = "ready" => Len(chain[p]) >= 1 /\ IsGenesis(chain[p][1])

\* an initialization against an unparseable file has completed
C5_Witness ==
  /\ last.op = "init"
  /\ last.preFile.state = "garbage"
  /\ pc[last.p] = "ready"
  /\ Len(chain[last.p]) = 1

(***************************************************************************)
(* C6: add(role, user) on a chain of length n leaves a chain of length     *)
(* n + 1 whose tail has data role ":" user, also when that pair had been   *)
(* granted before, and whose first n blocks are unchanged in all fields.   *)
(***************************************************************************)
C6_AddAppends ==
  last.op = "add" =>
    LET ch == chain[last.p]
        n == Len(last.pre)
    IN  /\ Len(ch) = n + 1
        /\ ch[n + 1].data = last.role \o <<":">> \o last.user
        /\ \A i \in 1..n : ch[i] = last.pre[i]

\* the pair is granted a second time
C6_Witness ==
  /\ last.op = "add"
  /\ Len(chain[last.p]) = 3
  /\ chain[last.p][2].data = chain[last.p][3].data

C8_RoundTrip ==
  Reloaded =>
    /\ pc[last.p] = "ready"
    /\ Len(chain[last.p]) = Len(saved)
    /\ \A i \in 1..Len(saved) :
         /\ chain[last.p][i].index = saved[i].index
         /\ chain[last.p][i].timestamp = saved[i].timestamp
         /\ chain[last.p][i].data = saved[i].data
         /\ chain[last.p][i].prev_hash = saved[i].prev_hash
         /\ chain[last.p][i].nonce = saved[i].nonce
         /\ chain[last.p][i].hash = saved[i].hash

\* a chain of three blocks with a two-digit nonce has gone through the file
C8_Witness ==
  /\ Reloaded
  /\ Len(saved) = 3
  /\ saved[3].nonce >= 10

(***************************************************************************)
(* C9: once add(role, user) has returned, verify(role, user) returns true  *)
(* in that process and in every later invocation that reloads the ledger,  *)
(* however many grants follow; verify of a pair whose role ":" user        *)
(* occurs in no stored payload returns false.                              *)
(***************************************************************************)
C9_GrantPersists ==
  last.op = "verify" =>
    /\ <<last.role, last.user>> \in granted => last.ret
    /\ (\A i \in 1..Len(chain[last.p]) :
          ~Occurs(last.role \o <<":">> \o last.user, chain[last.p][i].data))
         => ~last.ret

\* verify of a pair granted by an earlier invocation and read back from the
\* file, with another grant made after it
C9_Witness ==
  /\ last.op = "verify"
  /\ last.ret
  /\ <<last.role, last.user>> \in granted
  /\ loaded[last.p] >= 2
  /\ Len(chain[last.p]) = 3
  /\ chain[last.p][2].data = last.role \o <<":">> \o last.user
  /\ chain[last.p][3].data # chain[last.p][2].data

(***************************************************************************)
(* C10: verify(role, user) returns true exactly when the data of at least  *)
(* one block contains role ":" user as a contiguous substring; with only   *)
(* grant("admin", "alice") recorded, verify("adm", "alice") returns false. *)
(***************************************************************************)
C10_VerifyIsSubstring ==
  last.op = "verify" =>
    /\ last.ret <=>
         \E i \in 1..Len(chain[last.p]) :
           Occurs(last.role \o <<":">> \o last.user, chain[last.p][i].data)
    /\ ( /\ Len(chain[last.p]) = 2
         /\ chain[last.p][2].data = Admin \o <<":">> \o Alice
         /\ last.role = Adm
         /\ last.user = Alice ) => ~last.ret

\* verify("adm", "alice") was asked of a ledger holding only admin:alice
C10_Witness ==
  /\ last.op = "verify"
  /\ Len(chain[last.p]) = 2
  /\ chain[last.p][2].data = Admin \o <<":">> \o Alice
  /\ last.role = Adm
  /\ last.user = Alice

(***************************************************************************)
(* C12: when the ledger directory exists and the content of the ledger     *)
(* file cannot be parsed, initialization ends with a chain of exactly one  *)
(* fresh genesis block and the file has been overwritten with that         *)
(* one-block chain.                                                        *)
(***************************************************************************)
C12_CorruptionFallback ==
  (last.op = "init" /\ last.preDir /\ last.preFile.state = "garbage") =>
    /\ pc[last.p] = "ready"
    /\ Len(chain[last.p]) = 1
    /\ IsGenesis(chain[last.p][1])
    /\ chain[last.p][1].nonce = 0
    /\ chain[last.p][1].timestamp \in Timestamps
    /\ file.state = "json"
    /\ Len(file.doc) = 1
    /\ Persisted(file) = chain[last.p]

\* the unparseable file has been replaced by a parseable one
C12_Witness ==
  /\ last.op = "init"
  /\ last.preDir
  /\ last.preFile.state = "garbage"
  /\ file.state = "json"

(***************************************************************************)
(* Ledger files that were edited outside the program.  load takes whatever *)
(* json.load returns: the records of a file the program wrote, with a      *)
(* field changed or a key removed.                                         *)
(***************************************************************************)
\* the chain after a first run and one grant of admin to alice
SampleChain ==
  LET g == Block(0, Str(1), GenesisData, Sentinel)
  IN  <<g, mine(Block(1, Str(1), Payload(Admin, Alice), g.hash), difficulty)>>

\* what json.load can return for chain_head.json when the file was written
\* by the program and then edited
EditedFiles ==
  LET doc == json_dump(SampleChain)
      Without(o, key) == [k \in (DOMAIN o) \ {key} |-> o[k]]
  IN  {JsonFile(doc),
       JsonFile([doc EXCEPT ![2].hash = JStr(<<"0", "0", "f">>)]),
       JsonFile([doc EXCEPT ![2].prev_hash = JStr(<<"f", "f", "f">>)]),
       JsonFile([doc EXCEPT ![2].nonce = JNum(SampleChain[2].nonce + 1)]),
       JsonFile(<<doc[1], Without(doc[2], "data")>>),
       JsonFile(<<doc[1], Without(Without(doc[2], "nonce"), "hash")>>),
       JsonFile(<<>>)}

\* the ledger directory exists and holds an edited file
InitEdited ==
  /\ dir = TRUE
  /\ file \in EditedFiles
  /\ chain = [p \in Procs |-> <<>>]
  /\ pc = [p \in Procs |-> "none"]
  /\ last = [op |-> "none", p |-> 1, role |-> NoArg, user |-> NoArg,
             ret |-> FALSE, pre |-> <<>>, preDir |-> dir, preFile |-> file]
  /\ granted = {}
  /\ saved = <<>>
  /\ loaded = [p \in Procs |-> 0]
  /\ inv = [p \in Procs |-> NoInv]
  /\ started = 0
  /\ blk = NoBlock
  /\ tree = NoTree
  /\ tool = NoTool

SpecEdited == InitEdited /\ [][Next]_vars

\* json.load raises, or a record of its result raises KeyError in load
LoadFails(f) ==
  f.state # "json" \/ \E i \in 1..Len(f.doc) : ~HasKeys(f.doc[i])

(***************************************************************************)
(* C13: initialization falls back to a fresh genesis chain for every load  *)
(* failure, a parseable file with a record that lacks index, timestamp,    *)
(* data or prev_hash included; no load failure aborts the initialization.  *)
(***************************************************************************)
C13_EveryLoadFailureFallsBack ==
  (last.op = "init" /\ last.preDir /\ LoadFails(last.preFile)) =>
    /\ pc[last.p] = "ready"
    /\ Len(chain[last.p]) = 1
    /\ IsGenesis(chain[last.p][1])

\* the data payloads of a chain, nothing else of it
DataOf(ch) == [i \in 1..Len(ch) |-> ch[i].data]

\* some payload holds the text
VerifyData(ds, t) == \E i \in 1..Len(ds) : Occurs(t, ds[i])

(***************************************************************************)
(* C20: the result of verify is a function of the data payloads of the     *)
(* chain alone.  Chains with the same payloads and different hash,         *)
(* prev_hash or nonce fields, broken links included, give the same result, *)
(* and verify raises no integrity error on them.                           *)
(***************************************************************************)
C20_VerifyReadsDataOnly ==
  last.op = "verify" =>
    /\ pc[last.p] = "ready"
    /\ last.ret = VerifyData(DataOf(last.pre), Payload(last.role, last.user))

\* a positive answer from a chain whose link to the previous block is broken
\* or whose stored hash is not the digest of its block
C20_Witness ==
  /\ last.op = "verify"
  /\ last.ret
  /\ \/ ~Linked(last.pre)
     \/ \E i \in 1..Len(last.pre) : last.pre[i].hash # compute_hash(last.pre[i])

(***************************************************************************)
(* The command surface, step by step.  An invocation is a process that     *)
(* runs the __main__ block: it constructs the ledger object, reads         *)
(* sys.argv and dispatches.  save is two steps here, as it is for the      *)
(* operating system: open(..., 'w') empties the file, json.dump and the    *)
(* close of the with block fill it.                                        *)
(***************************************************************************)
\* what a step of an invocation records in last: the step, the process,
\* the arguments, the value returned and the chain of the object; the steps
\* recorded are the start, the query and the ways an invocation is cut short
Ev(op, p, r, u, ret, ch) ==
  [op |-> op, p |-> p, role |-> r, user |-> u, ret |-> ret,
   pre |-> ch, preDir |-> FALSE, preFile |-> NoFile]

GrantVerb == <<"g", "r", "a", "n", "t">>
VerifyVerb == <<"v", "e", "r", "i", "f", "y">>

\* block_str.encode() returns
Encodable(s) == \A k \in 1..Len(s) : s[k] \in DOMAIN Ord

\* sys.argv[1:] of the invocations; "#" stands for a character
\* str.encode() raises UnicodeEncodeError on: a lone surrogate, which
\* sys.argv holds for an argument byte that is not UTF-8
Argvs ==
  {<<>>, <<<<"r", "e", "v", "o", "k", "e">>, Admin, Alice>>,
   <<GrantVerb, Admin>>, <<VerifyVerb>>, <<GrantVerb, Admin, <<"#">>>>}
  \cup {<<GrantVerb, a[1], a[2]>> : a \in Args}
  \cup {<<VerifyVerb, a[1], a[2]>> : a \in Args}

\* the arguments overlapping invocations are driven with
ArgvsConc ==
  {<<>>, <<GrantVerb, Admin, Alice>>, <<GrantVerb, Adm, Alice>>,
   <<VerifyVerb, Admin, Alice>>}

\* sys.argv[1] == "grant" and len(sys.argv) >= 4, reached after
\* len(sys.argv) < 2 was false
IsGrant(argv) == Len(argv) >= 1 /\ argv[1] = GrantVerb /\ Len(argv) >= 3

\* sys.argv[1] == "verify" and len(sys.argv) >= 4
IsVerify(argv) == Len(argv) >= 1 /\ argv[1] = VerifyVerb /\ Len(argv) >= 3

\* variant: the file is opened without being emptied
truncate_kept(f) == f

\* open(path, 'w'): the file exists and is empty, which json.load rejects,
\* as it rejects every proper prefix of what json.dump writes
truncate(f) == Garbage

\* the process starts and runs HeadyChain.__init__ up to the first write:
\* os.path.exists, and when the directory exists load's open and json.load
\* and its for loop
Start(p) ==
  /\ pc[p] = "none"
  /\ started < MaxStarts
  /\ started' = started + 1
  /\ UNCHANGED <<blk, tree, tool>>
  /\ inv' = [inv EXCEPT ![p] =
               [args |-> <<>>, startDir |-> dir, startFile |-> file,
                adds |-> 0, verifies |-> 0, midSave |-> \E q \in Procs \ {p} :
                                       pc[q] \in {"gen_write", "add_write"},
                addFile |-> NoFile,
                after |-> [op |-> last.op, pre |-> last.pre]]]
  /\ IF ~dir
     THEN /\ pc' = [pc EXCEPT ![p] = "mkdir"]
          /\ UNCHANGED chain
     ELSE IF file.state # "json"
     THEN \* FileNotFoundError or json.JSONDecodeError: gen is called
          /\ pc' = [pc EXCEPT ![p] = "gen_open"]
          /\ UNCHANGED chain
     ELSE /\ chain' = [chain EXCEPT ![p] = load_records(file.doc, <<>>)]
          /\ pc' = [pc EXCEPT ![p] =
                      IF LoadFails(file) THEN "aborted" ELSE "ready"]
  /\ last' = Ev("start", p, NoArg, NoArg, FALSE, <<>>)
  /\ UNCHANGED <<dir, file, granted, saved, loaded>>

\* one invocation at a time: the process starts when no other runs
StartAlone(p) ==
  /\ \A q \in Procs : pc[q] = "none" /\ p <= q
  /\ Start(p)

\* os.makedirs(LEDGER_DIR): FileExistsError when the directory has appeared
\* since os.path.exists
Mkdir(p) ==
  /\ pc[p] = "mkdir"
  /\ IF dir
     THEN pc' = [pc EXCEPT ![p] = "aborted"] /\ UNCHANGED dir
     ELSE pc' = [pc EXCEPT ![p] = "gen_open"] /\ dir' = TRUE
  /\ UNCHANGED <<last, file, chain, granted, saved, loaded, inv, started, blk, tree, tool>>

\* gen: the genesis block is appended, save opens the file
GenOpen(p) ==
  /\ pc[p] = "gen_open"
  /\ \E now \in Timestamps :
       chain' = [chain EXCEPT ![p] =
                   Append(chain[p], Block(0, now, GenesisData, Sentinel))]
  /\ file' = truncate(file)
  /\ pc' = [pc EXCEPT ![p] = "gen_write"]
  /\ UNCHANGED <<last, dir, granted, saved, loaded, inv, started, blk, tree, tool>>

\* gen: save's json.dump and close
GenWrite(p) ==
  /\ pc[p] = "gen_write"
  /\ file' = save(chain[p])
  /\ pc' = [pc EXCEPT ![p] = "ready"]
  /\ UNCHANGED <<last, saved, dir, chain, granted, loaded, inv, started, blk, tree, tool>>

\* the branches of __main__ that print the usage line or the invalid
\* command line
Usage(p, argv) ==
  /\ pc[p] = "ready"
  /\ ~IsGrant(argv) /\ ~IsVerify(argv)
  /\ inv' = [inv EXCEPT ![p].args = argv]
  /\ pc' = [pc EXCEPT ![p] = "done"]
  /\ UNCHANGED <<last, dir, file, chain, granted, saved, loaded, started, blk, tree, tool>>

\* hc.add(sys.argv[2], sys.argv[3]) up to save's open
AddOpen(p, argv) ==
  /\ pc[p] = "ready"
  /\ IsGrant(argv)
  /\ Len(chain[p]) < MaxChain
  /\ inv' = [inv EXCEPT ![p].args = argv, ![p].adds = @ + 1,
                        ![p].addFile = file]
  /\ IF Len(chain[p]) = 0
     THEN \* self.chain[-1] raises IndexError
          /\ pc' = [pc EXCEPT ![p] = "aborted"]
          /\ last' = Ev("add_raised", p, argv[2], argv[3], FALSE, chain[p])
          /\ UNCHANGED <<file, chain>>
     ELSE IF ~Encodable(Payload(argv[2], argv[3]))
     THEN \* Block.__init__: compute_hash raises UnicodeEncodeError
          /\ pc' = [pc EXCEPT ![p] = "aborted"]
          /\ last' = Ev("add_failed", p, argv[2], argv[3], FALSE, chain[p])
          /\ UNCHANGED <<file, chain>>
     ELSE \E now \in Timestamps :
            LET parent == chain[p][Len(chain[p])]
                b == mine(Block(parent.index + 1, now,
                                Payload(argv[2], argv[3]), parent.hash),
                          difficulty)
            IN  /\ Returned(b, difficulty)
                /\ chain' = [chain EXCEPT ![p] = Append(chain[p], b)]
                /\ file' = truncate(file)
                /\ pc' = [pc EXCEPT ![p] = "add_write"]
                /\ UNCHANGED last
  /\ UNCHANGED <<dir, granted, saved, loaded, started, blk, tree, tool>>

\* add: save's json.dump and close, then the print
AddWrite(p) ==
  /\ pc[p] = "add_write"
  /\ file' = save(chain[p])
  /\ inv' = [inv EXCEPT ![p].addFile = NoFile]
  /\ pc' = [pc EXCEPT ![p] = "done"]
  /\ UNCHANGED <<last, granted, saved, dir, chain, loaded, started, blk, tree, tool>>

\* json.dump or the close raises OSError (no space left, quota, I/O error):
\* the exception leaves save, and add or gen, and ends the invocation
WriteFails(p) ==
  /\ pc[p] \in {"gen_write", "add_write"}
  /\ pc' = [pc EXCEPT ![p] = "aborted"]
  /\ last' = Ev(IF pc[p] = "add_write" THEN "add_failed" ELSE "gen_failed",
                p, NoArg, NoArg, FALSE, chain[p])
  /\ UNCHANGED <<dir, file, chain, granted, saved, loaded, inv, started, blk, tree, tool>>

\* the process is stopped (signal, power loss) between save's open and its
\* close
Killed(p) ==
  /\ pc[p] \in {"gen_write", "add_write"}
  /\ pc' = [pc EXCEPT ![p] = "none"]
  /\ last' = Ev(IF pc[p] = "add_write" THEN "killed_add" ELSE "killed_gen",
                p, NoArg, NoArg, FALSE, chain[p])
  /\ chain' = [chain EXCEPT ![p] = <<>>]
  /\ inv' = [inv EXCEPT ![p] = NoInv]
  /\ UNCHANGED <<dir, file, granted, saved, loaded, started, blk, tree, tool>>

\* print("ACCESS GRANTED" if hc.verify(sys.argv[2], sys.argv[3]) else "DENIED")
CliVerify(p, argv) ==
  /\ pc[p] = "ready"
  /\ IsVerify(argv)
  /\ inv' = [inv EXCEPT ![p].args = argv, ![p].verifies = @ + 1]
  /\ pc' = [pc EXCEPT ![p] = "done"]
  /\ last' = Ev("verify", p, argv[2], argv[3],
                verify(chain[p], argv[2], argv[3]), chain[p])
  /\ UNCHANGED <<dir, file, chain, granted, saved, loaded, started, blk, tree, tool>>

\* the interpreter exits, after the last statement or with a traceback
CliExit(p) ==
  /\ pc[p] \in {"done", "aborted"}
  /\ pc' = [pc EXCEPT ![p] = "none"]
  /\ chain' = [chain EXCEPT ![p] = <<>>]
  /\ inv' = [inv EXCEPT ![p] = NoInv]
  /\ UNCHANGED <<last, dir, file, granted, saved, loaded, started, blk, tree, tool>>

\* the storage before the program has run on it, or after its file was
\* lost or damaged, or as an earlier run and one grant have left it
InitCli ==
  /\ \E s \in {<<FALSE, NoFile>>, <<TRUE, NoFile>>, <<TRUE, Garbage>>,
                <<TRUE, save(SampleChain)>>} :
       dir = s[1] /\ file = s[2]
  /\ chain = [p \in Procs |-> <<>>]
  /\ pc = [p \in Procs |-> "none"]
  /\ last = [op |-> "none", p |-> 1, role |-> NoArg, user |-> NoArg,
             ret |-> FALSE, pre |-> <<>>, preDir |-> FALSE, preFile |-> NoFile]
  /\ granted = {}
  /\ saved = <<>>
  /\ loaded = [p \in Procs |-> 0]
  /\ inv = [p \in Procs |-> NoInv]
  /\ started = 0
  /\ blk = NoBlock
  /\ tree = NoTree
  /\ tool = NoTool

\* invocations one after the other, any of which may be stopped or fail
\* to write
NextCli ==
  \/ \E p \in Procs : StartAlone(p)
  \/ \E p \in Procs : Mkdir(p)
  \/ \E p \in Procs : GenOpen(p)
  \/ \E p \in Procs : GenWrite(p)
  \/ \E p \in Procs, argv \in Argvs : Usage(p, argv)
  \/ \E p \in Procs, argv \in Argvs : AddOpen(p, argv)
  \/ \E p \in Procs : AddWrite(p)
  \/ \E p \in Procs, argv \in Argvs : CliVerify(p, argv)
  \/ \E p \in Procs : WriteFails(p)
  \/ \E p \in Procs : Killed(p)
  \/ \E p \in Procs : CliExit(p)

SpecCli == InitCli /\ [][NextCli]_vars

\* one invocation for every process slot, started at any time
StartOverlapping(p) ==
  /\ started < Cardinality(Procs)
  /\ Start(p)

\* invocations that overlap, none stopped
NextConc ==
  \/ \E p \in Procs : StartOverlapping(p)
  \/ \E p \in Procs : Mkdir(p)
  \/ \E p \in Procs : GenOpen(p)
  \/ \E p \in Procs : GenWrite(p)
  \/ \E p \in Procs, argv \in ArgvsConc : Usage(p, argv)
  \/ \E p \in Procs, argv \in ArgvsConc : AddOpen(p, argv)
  \/ \E p \in Procs : AddWrite(p)
  \/ \E p \in Procs, argv \in ArgvsConc : CliVerify(p, argv)
  \/ \E p \in Procs : CliExit(p)

SpecConc == InitCli /\ [][NextConc]_vars

\* process p has run a grant to its end and the command has reported it
Granted(p) == pc[p] = "done" /\ IsGrant(inv[p].args)

\* both invocations are grants that have reported success, and both have
\* read the same ledger file
BothGranted ==
  /\ \A p \in Procs : Granted(p) /\ inv[p].startFile.state = "json"
  /\ \A p, q \in Procs : inv[p].startFile = inv[q].startFile

(***************************************************************************)
(* C11: two overlapping grants that read the same ledger file both mine a  *)
(* block on the same tail, with the same prev_hash, and the rewrite of the *)
(* later writer replaces the chain of the earlier one: when both have      *)
(* reported success the file is the chain of one of them, one block longer *)
(* than the file they read, and no invocation has met an error.            *)
(***************************************************************************)
C11_LostUpdate ==
  BothGranted =>
    \A p \in Procs :
      LET old == Persisted(inv[p].startFile)
          n == Len(old)
      IN  /\ n > 0
          /\ Len(chain[p]) = n + 1
          /\ SubSeq(chain[p], 1, n) = old
          /\ chain[p][n + 1].prev_hash = old[n].hash
          /\ Len(Persisted(file)) = n + 1
          /\ \E q \in Procs : file = save(chain[q])
          /\ \A q \in Procs : pc[q] # "aborted"

\* both grants have reported success and the file lacks one of them
C11_Witness ==
  /\ BothGranted
  /\ \E p \in Procs :
       ~verify(Persisted(file), inv[p].args[2], inv[p].args[3])

(***************************************************************************)
(* C14: when the process is stopped after add has opened the ledger file   *)
(* for writing and before the write is complete, the file is left          *)
(* unparseable; the next initialization ends with a chain of one genesis   *)
(* block, written to the file, and verify is false for every grant that    *)
(* had been persisted.                                                     *)
(***************************************************************************)
C14_InterruptedSaveLosesLedger ==
  /\ last.op = "killed_add" => file.state = "garbage"
  /\ \A p \in Procs :
       (inv[p].after.op = "killed_add" /\ pc[p] = "ready") =>
         /\ inv[p].startFile.state = "garbage"
         /\ Len(chain[p]) = 1
         /\ IsGenesis(chain[p][1])
         /\ file = save(chain[p])
         /\ \A a \in Args : ~verify(chain[p], a[1], a[2])

\* the stopped add had loaded a ledger holding the grant of admin to alice
C14_Witness ==
  \E p \in Procs :
    /\ inv[p].after.op = "killed_add"
    /\ pc[p] = "ready"
    /\ Len(inv[p].after.pre) >= 3
    /\ verify(SubSeq(inv[p].after.pre, 1, Len(inv[p].after.pre) - 1), Admin, Alice)

(***************************************************************************)
(* C15: an add that fails before it completes, by an error raised while    *)
(* the block is hashed or while the file is written, leaves the persisted  *)
(* chain as it was before the add.                                         *)
(***************************************************************************)
C15_FailedAddKeepsFile ==
  last.op = "add_failed" => file = inv[last.p].addFile

(***************************************************************************)
(* C16: every read of the ledger file sees a complete snapshot: a process  *)
(* that initializes while another is in the middle of a save does not read *)
(* a partial file, does not fall back to genesis and does not overwrite.   *)
(***************************************************************************)
C16_ReadsAreSnapshots ==
  \A p \in Procs :
    (pc[p] # "none" /\ inv[p].midSave) =>
      /\ inv[p].startFile.state = "json"
      /\ pc[p] \notin {"gen_open", "gen_write"}

(***************************************************************************)
(* C17: a verify invocation never changes the persisted ledger, whatever   *)
(* it starts on: no directory, a well-formed file, a missing or an         *)
(* unparseable file.                                                       *)
(***************************************************************************)
C17_VerifyInvocationReadOnly ==
  \A p \in Procs :
    (pc[p] = "done" /\ IsVerify(inv[p].args)) =>
      dir = inv[p].startDir /\ file = inv[p].startFile

(***************************************************************************)
(* C18: an invocation with no verb, an unknown verb, or grant or verify    *)
(* without role or user prints the usage line and neither changes nor      *)
(* queries the ledger: directory and file are as before, add and verify    *)
(* are not called.                                                         *)
(***************************************************************************)
C18_UsageTouchesNothing ==
  \A p \in Procs :
    (pc[p] = "done" /\ ~IsGrant(inv[p].args) /\ ~IsVerify(inv[p].args)) =>
      /\ inv[p].adds = 0 /\ inv[p].verifies = 0
      /\ dir = inv[p].startDir
      /\ file = inv[p].startFile

(***************************************************************************)
(* The first definition of the program in the file (lines 1-39).  Its      *)
(* load has no except clause and rebuilds every block through the          *)
(* constructor; its __main__ block dispatches twice, once before and once  *)
(* after the len(sys.argv) test.                                           *)
(***************************************************************************)
\* hc=HeadyChain(), one invocation at a time
ConstructFirst(p) ==
  /\ \A q \in Procs : pc[q] = "none" /\ p <= q
  /\ started < MaxStarts
  /\ started' = started + 1
  /\ UNCHANGED <<blk, tree, tool>>
  /\ inv' = [inv EXCEPT ![p] =
               [NoInv EXCEPT !.startDir = dir, !.startFile = file]]
  /\ IF ~dir
     THEN \E now \in Timestamps :
            /\ chain' = [chain EXCEPT ![p] = gen(<<>>, now).chain]
            /\ file' = gen(<<>>, now).file
            /\ pc' = [pc EXCEPT ![p] = "ready"]
     ELSE \* HeadyChain.load of the first definition: the list
          \* comprehension over json.load(f); any exception leaves
          \* self.chain empty and propagates
          /\ chain' = [chain EXCEPT ![p] =
                         IF LoadFails(file) THEN <<>>
                         ELSE [i \in 1..Len(file.doc) |->
                                 load_block_rebuilt(file.doc[i])]]
          /\ pc' = [pc EXCEPT ![p] =
                      IF LoadFails(file) THEN "aborted" ELSE "ready"]
          /\ UNCHANGED file
  /\ dir' = TRUE
  /\ last' = Ev("start", p, NoArg, NoArg, FALSE, <<>>)
  /\ UNCHANGED <<granted, saved, loaded>>

\* one call of hc.add from __main__, on the chain ch of process p:
\* HeadyChain.add of the first definition appends the mined block
CallAdd(p, argv, ch) ==
  IF Len(ch) = 0 \/ ~Encodable(Payload(argv[2], argv[3]))
  THEN \* IndexError, UnicodeEncodeError
       /\ pc' = [pc EXCEPT ![p] = "aborted"]
       /\ UNCHANGED <<file, chain>>
  ELSE \E now \in Timestamps :
         LET ch1 == Append(ch, mine(Block(ch[Len(ch)].index + 1, now,
                                          Payload(argv[2], argv[3]),
                                          ch[Len(ch)].hash), difficulty))
         IN  /\ Returned(ch1[Len(ch1)], difficulty)
             /\ chain' = [chain EXCEPT ![p] = ch1]
             /\ file' = save(ch1)
             /\ pc' = [pc EXCEPT ![p] =
                         IF pc[p] = "ready" THEN "second" ELSE "done"]

\* lines 30-31: the two if statements that read sys.argv[1] before its
\* length is tested
DispatchFirst(p, argv) ==
  /\ pc[p] = "ready"
  /\ Len(chain[p]) < MaxChain
  /\ IF Len(argv) = 0 \/ (argv[1] \in {GrantVerb, VerifyVerb} /\ Len(argv) < 3)
     THEN \* sys.argv[1], sys.argv[2] or sys.argv[3] raises IndexError
          /\ pc' = [pc EXCEPT ![p] = "aborted"]
          /\ inv' = [inv EXCEPT ![p].args = argv]
          /\ UNCHANGED <<file, chain, last>>
     ELSE IF argv[1] = GrantVerb
     THEN /\ CallAdd(p, argv, chain[p])
          /\ inv' = [inv EXCEPT ![p].args = argv, ![p].adds = @ + 1]
          /\ UNCHANGED last
     ELSE IF argv[1] = VerifyVerb
     THEN /\ last' = Ev("verify", p, argv[2], argv[3],
                        verify(chain[p], argv[2], argv[3]), chain[p])
          /\ inv' = [inv EXCEPT ![p].args = argv, ![p].verifies = @ + 1]
          /\ pc' = [pc EXCEPT ![p] = "second"]
          /\ UNCHANGED <<file, chain>>
     ELSE /\ inv' = [inv EXCEPT ![p].args = argv]
          /\ pc' = [pc EXCEPT ![p] = "second"]
          /\ UNCHANGED <<file, chain, last>>
  /\ UNCHANGED <<dir, granted, saved, loaded, started, blk, tree, tool>>

\* lines 32-39: the if/elif chain that follows
DispatchSecond(p) ==
  /\ pc[p] = "second"
  /\ Len(chain[p]) < MaxChain
  /\ IF IsGrant(inv[p].args)
     THEN /\ CallAdd(p, inv[p].args, chain[p])
          /\ inv' = [inv EXCEPT ![p].adds = @ + 1]
          /\ UNCHANGED last
     ELSE IF IsVerify(inv[p].args)
     THEN /\ last' = Ev("verify", p, inv[p].args[2], inv[p].args[3],
                        verify(chain[p], inv[p].args[2], inv[p].args[3]),
                        chain[p])
          /\ inv' = [inv EXCEPT ![p].verifies = @ + 1]
          /\ pc' = [pc EXCEPT ![p] = "done"]
          /\ UNCHANGED <<file, chain>>
     ELSE /\ pc' = [pc EXCEPT ![p] = "done"]
          /\ UNCHANGED <<file, chain, last, inv>>
  /\ UNCHANGED <<dir, granted, saved, loaded, started, blk, tree, tool>>

NextFirst ==
  \/ \E p \in Procs : ConstructFirst(p)
  \/ \E p \in Procs, argv \in Argvs : DispatchFirst(p, argv)
  \/ \E p \in Procs : DispatchSecond(p)
  \/ \E p \in Procs : CliExit(p)

SpecFirst == InitCli /\ [][NextFirst]_vars

\* the number of blocks the object of process p held when __init__ returned
BlocksAtStart(p) ==
  IF inv[p].startDir /\ inv[p].startFile.state = "json"
  THEN Len(inv[p].startFile.doc)
  ELSE 1

(***************************************************************************)
(* C19: one command invocation performs at most one ledger operation: a    *)
(* grant invocation appends exactly one block to the chain, a verify       *)
(* invocation runs one query and appends no block.                         *)
(***************************************************************************)
C19_OneOperationPerInvocation ==
  \A p \in Procs :
    pc[p] = "done" =>
      /\ inv[p].adds + inv[p].verifies <= 1
      /\ IsGrant(inv[p].args) =>
           inv[p].adds = 1 /\ Len(chain[p]) = BlocksAtStart(p) + 1
      /\ IsVerify(inv[p].args) =>
           inv[p].verifies = 1 /\ Len(chain[p]) = BlocksAtStart(p)

\* process p is in gen, or has just left it
InGen(p) == pc[p] \in {"gen_open", "gen_write"}

\* the invocation of process p found no ledger it could read
StartedUnreadable(p) == ~inv[p].startDir \/ inv[p].startFile.state # "json"

(***************************************************************************)
(* C21, as stated: a genesis block is constructed only when the storage    *)
(* location is absent, so that over any sequence of invocations on one     *)
(* storage location it is constructed once.                                *)
(***************************************************************************)
C21_GenesisOnlyWhenAbsent ==
  \A p \in Procs : InGen(p) => ~inv[p].startDir

(***************************************************************************)
(* C21, amended: a genesis block is constructed only by an initialization  *)
(* that found the ledger directory absent or the ledger file missing or    *)
(* unparseable, which can happen again after the file was lost or damaged; *)
(* the block is the only block of the chain, it is persisted at once and   *)
(* it is never mined (nonce 0, hash the digest of its fields).             *)
(***************************************************************************)
C21_GenesisOnlyWhenUnreadable ==
  \A p \in Procs :
    /\ InGen(p) => StartedUnreadable(p)
    /\ (pc[p] \in {"gen_write", "ready"} /\ StartedUnreadable(p)) =>
         /\ Len(chain[p]) = 1
         /\ IsGenesis(chain[p][1])
         /\ chain[p][1].nonce = 0
         /\ chain[p][1].hash = compute_hash(chain[p][1])
    /\ (pc[p] = "ready" /\ StartedUnreadable(p)) => file = save(chain[p])
    /\ (pc[p] = "ready" /\ ~StartedUnreadable(p)) =>
         chain[p] = Persisted(inv[p].startFile)

\* a genesis block persisted where the directory was already there, in the
\* second invocation on this storage
C21_Witness ==
  \E p \in Procs :
    /\ pc[p] = "ready"
    /\ inv[p].startDir
    /\ inv[p].startFile.state # "json"
    /\ started = 2
    /\ file = save(chain[p])

(***************************************************************************)
(* Block.mine, one iteration of its while loop at a time, on a Block       *)
(* object taken on its own.  The inputs are the constructor's arguments    *)
(* and the difficulty; a difficulty above the length of the digest is one  *)
(* that no nonce meets.                                                    *)
(***************************************************************************)

\* the arguments Block is constructed with
BlockInputs ==
  [index : 0..(MaxChain - 1),
   timestamp : Timestamps,
   data : {GenesisData} \cup {Payload(a[1], a[2]) : a \in Args},
   prev_hash : {Sentinel} \cup {SampleChain[i].hash : i \in 1..Len(SampleChain)}]

\* variant: the loop goes on whatever the hash
mine_continues_blind(b, d) == b.nonce >= 0

\* the condition of mine's while: not self.hash.startswith(target)
mine_continues(b, d) == ~StartsWith(b.hash, Zeros(d))

\* variant: the body counts in steps of two
mine_body_by_two(b) ==
  LET b1 == [b EXCEPT !.nonce = b.nonce + 2]
  IN  [b1 EXCEPT !.hash = compute_hash(b1)]

\* the body of mine's while: self.nonce += 1; self.hash = self.compute_hash()
mine_body(b) ==
  LET b1 == [b EXCEPT !.nonce = b.nonce + 1]
  IN  [b1 EXCEPT !.hash = compute_hash(b1)]

\* a Block has been constructed and nothing was called on it yet; the
\* difficulty arguments mine is called with are the default, one less,
\* and one no digest can meet, len(hexdigest) + 1
InitMine ==
  /\ \E a \in BlockInputs,
        d \in {difficulty - 1, difficulty, Len(HexDigest(0)) + 1} :
       blk = [state |-> "constructed",
              b |-> Block(a.index, a.timestamp, a.data, a.prev_hash),
              d |-> d,
              start |-> Block(a.index, a.timestamp, a.data, a.prev_hash),
              steps |-> 0, calls |-> 0, reloaded |-> FALSE]
  /\ dir = FALSE
  /\ file = NoFile
  /\ chain = [p \in Procs |-> <<>>]
  /\ pc = [p \in Procs |-> "none"]
  /\ last = [op |-> "none", p |-> 1, role |-> NoArg, user |-> NoArg,
             ret |-> FALSE, pre |-> <<>>, preDir |-> FALSE, preFile |-> NoFile]
  /\ granted = {}
  /\ saved = <<>>
  /\ loaded = [p \in Procs |-> 0]
  /\ inv = [p \in Procs |-> NoInv]
  /\ started = 0
  /\ tree = NoTree
  /\ tool = NoTool

Ledger == <<dir, file, chain, pc, last, granted, saved, loaded, inv, started>>

\* b.mine(d) is called: target = "0" * difficulty
MineCall ==
  /\ blk.state \in {"constructed", "returned"}
  /\ blk' = [blk EXCEPT !.state = "loop", !.start = blk.b, !.steps = 0]
  /\ UNCHANGED <<Ledger, tree, tool>>

\* one iteration of the while loop, followed up to nonce MaxNonce
MineStep ==
  /\ blk.state = "loop"
  /\ mine_continues(blk.b, blk.d)
  /\ blk.b.nonce < MaxNonce
  /\ blk' = [blk EXCEPT !.b = mine_body(blk.b), !.steps = @ + 1]
  /\ UNCHANGED <<Ledger, tree, tool>>

\* the while condition is false: mine returns
MineReturn ==
  /\ blk.state = "loop"
  /\ ~mine_continues(blk.b, blk.d)
  /\ blk' = [blk EXCEPT !.state = "returned",
                        !.calls = IF @ = 0 THEN 1 ELSE 2]
  /\ UNCHANGED <<Ledger, tree, tool>>

\* the block is written by save and read back by load
SaveLoad ==
  /\ blk.state \in {"constructed", "returned"}
  /\ ~blk.reloaded
  /\ blk' = [blk EXCEPT !.b = load_block(json_block(blk.b)),
                        !.reloaded = TRUE]
  /\ UNCHANGED <<Ledger, tree, tool>>

NextMine == MineCall \/ MineStep \/ MineReturn \/ SaveLoad

SpecMine == InitMine /\ [][NextMine]_vars

\* the interpreter keeps running the loop and the return
SpecMineFair ==
  SpecMine /\ WF_vars(MineStep) /\ WF_vars(MineReturn)

\* with nonce n the digest of block b has the zero prefix of difficulty d
Meets(b, n, d) ==
  StartsWith(compute_hash([b EXCEPT !.nonce = n]), Zeros(d))

\* some nonce from the current one on, as far as the loop is followed,
\* meets the difficulty
Solvable == \E n \in blk.b.nonce..MaxNonce : Meets(blk.b, n, blk.d)

(***************************************************************************)
(* C25: when mine returns, the hash of the block starts with difficulty    *)
(* "0" characters and is the digest of the block's current fields; index,  *)
(* timestamp, data and prev_hash are as they were before the call; and     *)
(* the nonce of a block changes in no step other than an iteration of      *)
(* mine's loop, a save and reload of the block included.                   *)
(***************************************************************************)
C25_MineChangesNonceAndHashOnly ==
  /\ [](blk.state = "returned" =>
          /\ StartsWith(blk.b.hash, Zeros(blk.d))
          /\ blk.b.hash = compute_hash(blk.b)
          /\ blk.b.index = blk.start.index
          /\ blk.b.timestamp = blk.start.timestamp
          /\ blk.b.data = blk.start.data
          /\ blk.b.prev_hash = blk.start.prev_hash)
  /\ [][blk'.b.nonce # blk.b.nonce =>
          /\ blk.state = "loop" /\ blk'.state = "loop"
          /\ blk'.b.nonce = blk.b.nonce + 1]_vars

\* mine has returned after raising the nonce, and the block went through
\* the file since
C25_Witness ==
  /\ blk.state = "returned"
  /\ blk.d = difficulty
  /\ blk.b.nonce > blk.start.nonce
  /\ blk.reloaded

(***************************************************************************)
(* C26: mine returns exactly when some nonce at or above the starting one  *)
(* gives a digest with the zero prefix: if there is one the loop           *)
(* eventually exits, having raised the nonce by one per iteration; if      *)
(* there is none mine never returns.                                       *)
(***************************************************************************)
C26_MineReturnsIffSolvable ==
  /\ (blk.state = "loop" /\ Solvable) ~> (blk.state = "returned")
  /\ []((blk.state = "loop" /\ ~Solvable) => [](blk.state = "loop"))
  /\ [](blk.state \in {"loop", "returned"} =>
          blk.b.nonce = blk.start.nonce + blk.steps)

\* the loop has run at least twice and has exited
C26_Witness ==
  /\ blk.state = "returned"
  /\ blk.d = difficulty
  /\ blk.steps >= 2

(***************************************************************************)
(* C27: after mine on a freshly constructed block the nonce is the         *)
(* smallest n >= 0 whose digest over index, timestamp, data, prev_hash and *)
(* n has the zero prefix; a block whose digest at construction already has *)
(* it keeps nonce 0; mine called again on a sealed block changes neither   *)
(* nonce nor hash.                                                         *)
(***************************************************************************)
C27_SmallestNonce ==
  /\ (blk.state = "returned" /\ blk.calls = 1) =>
       /\ blk.start.nonce = 0
       /\ Meets(blk.start, blk.b.nonce, blk.d)
       /\ \A n \in 0..(blk.b.nonce - 1) : ~Meets(blk.start, n, blk.d)
       /\ Meets(blk.start, 0, blk.d) => blk.b.nonce = 0
       /\ blk.b = mine(blk.start, blk.d)
  /\ (blk.state \in {"loop", "returned"} /\ blk.calls = 2) =>
       /\ blk.steps = 0
       /\ blk.b = blk.start

\* a second call of mine has returned on a block sealed with a nonce above 0
C27_Witness ==
  /\ blk.state = "returned"
  /\ blk.calls = 2
  /\ blk.b.nonce > 0

(***************************************************************************)
(* C28: load sets the nonce and the hash of each block to the values       *)
(* stored in the file and does not recompute them: the hash of a loaded    *)
(* block is the stored hash even when that is not the digest of the stored *)
(* fields, and the block a following add appends has that stored hash as   *)
(* its prev_hash.                                                          *)
(***************************************************************************)
C28_StoredHashTrusted ==
  /\ (last.op = "init" /\ last.preFile.state = "json" /\ pc[last.p] = "ready") =>
       /\ Len(chain[last.p]) = Len(last.preFile.doc)
       /\ \A i \in 1..Len(chain[last.p]) :
            /\ "hash" \in DOMAIN last.preFile.doc[i] =>
                 chain[last.p][i].hash = JDecode(last.preFile.doc[i].hash)
            /\ "nonce" \in DOMAIN last.preFile.doc[i] =>
                 chain[last.p][i].nonce = JDecode(last.preFile.doc[i].nonce)
  /\ (last.op = "add" /\ pc[last.p] = "ready") =>
       /\ Len(chain[last.p]) = Len(last.pre) + 1
       /\ chain[last.p][Len(chain[last.p])].prev_hash = last.pre[Len(last.pre)].hash

\* an add on a loaded chain whose last block carries a hash that is not the
\* digest of its fields
C28_Witness ==
  /\ last.op = "add"
  /\ pc[last.p] = "ready"
  /\ loaded[last.p] = Len(last.pre)
  /\ last.pre[Len(last.pre)].hash # compute_hash(last.pre[Len(last.pre)])
  /\ chain[last.p][Len(chain[last.p])].prev_hash = last.pre[Len(last.pre)].hash

(***************************************************************************)
(* C29: whenever no operation is in progress the ledger file holds exactly *)
(* the chain in memory: after the genesis block was created and after each *)
(* add the file has every block of the chain, in chain order, each with    *)
(* its six fields, the file having been rewritten as a whole.              *)
(***************************************************************************)
C29_FileIsChain ==
  \A p \in Ready :
    /\ file.state = "json"
    /\ Len(file.doc) = Len(chain[p])
    /\ \A i \in 1..Len(chain[p]) :
         /\ DOMAIN file.doc[i] =
              {"index", "timestamp", "data", "prev_hash", "nonce", "hash"}
         /\ \A k \in DOMAIN file.doc[i] :
              JDecode(file.doc[i][k]) = chain[p][i][k]
    /\ last.op \in {"init", "add"} /\ last.p = p /\ file # last.preFile =>
         file = save(chain[p])

\* the file after an add on a chain that had been added to before
C29_Witness ==
  /\ last.op = "add"
  /\ pc[last.p] = "ready"
  /\ Len(last.pre) = 2
  /\ Len(file.doc) = 3

(***************************************************************************)
(* Processes that overlap, each operation of the ledger object taken as    *)
(* one step: a save is one atomic write of the file.  Every process is a   *)
(* grant invocation, one for every process slot: it constructs its ledger  *)
(* object and adds once.                                                   *)
(***************************************************************************)

\* the one hc.add of a grant invocation: the object of process p has not
\* added yet, its chain is what it loaded or the genesis block it created
Grant(p, r, u) ==
  /\ Len(chain[p]) = (IF loaded[p] = 0 THEN 1 ELSE loaded[p])
  /\ Add(p, r, u)

NextAtomic ==
  \/ \E p \in Procs : Initialize(p)
  \/ \E p \in Procs, a \in Args : Grant(p, a[1], a[2])

SpecAtomic == InitCli /\ [][NextAtomic]_vars

\* a chain that starts with a genesis block and is linked throughout
WellLinked(ch) ==
  /\ Len(ch) >= 1
  /\ IsGenesis(ch[1])
  /\ \A i \in 1..Len(ch) : ch[i].index = i - 1
  /\ \A i \in 2..Len(ch) : ch[i].prev_hash = ch[i - 1].hash

(***************************************************************************)
(* C30: with two processes that run grant concurrently, each save being    *)
(* one atomic step, every content the ledger file ever has is a            *)
(* well-linked chain: it starts with a genesis block, its indices count    *)
(* from 0 without a gap, and each prev_hash is the hash of the block       *)
(* before.  Writers that overlap lose blocks, they never persist a forked  *)
(* or mis-linked chain.                                                    *)
(***************************************************************************)
C30_FileAlwaysWellLinked ==
  file.state = "json" => WellLinked(Persisted(file))

\* both processes have added to the same tail and the file has the block
\* of one of them only
C30_Witness ==
  /\ \A p \in Procs : pc[p] = "ready" /\ Len(chain[p]) = 2
  /\ chain[1][1] = chain[2][1]
  /\ chain[1] # chain[2]
  /\ last.op = "add"
  /\ file = save(chain[last.p])

(***************************************************************************)
(* The other command line tools, each run taken as one step, on a disk     *)
(* that holds the ledger's directory and file as well.                     *)
(***************************************************************************)
\* the disk as a whole: the ledger's directory and file at their paths
Disk ==
  [path \in AllPaths |->
     IF path = LEDGER_DIR THEN (IF dir THEN Directory ELSE NoFile)
     ELSE IF path = ChainHead THEN file
     ELSE tree[path]]

\* the disk d is what a run leaves behind
Commit(d) ==
  /\ dir' = exists(d, LEDGER_DIR)
  /\ file' = d[ChainHead]
  /\ tree' = [path \in ToolPaths |-> d[path]]

\* a tool was started as the next invocation and has ended
Ran(op, made, out, ret) ==
  /\ started < MaxStarts
  /\ started' = started + 1
  /\ tool' = [op |-> op, root |-> tool.root, pre |-> Disk, made |-> made,
              out |-> out, ret |-> ret, prev |-> tool.op]
  /\ UNCHANGED <<chain, pc, last, granted, saved, loaded, inv, blk>>

\* os.getcwd() of a run: a directory that exists
Cwds == {pl \in Places : pl = <<>> \/ dir}

\* python Heady_Chain.py build: run_build_repair()
BuildRepair ==
  LET r == run_build_repair(Disk, tool.root)
  IN  /\ Commit(r.disk)
      /\ Ran("build", r.made,
             IF r.raised THEN "FileExistsError" ELSE "returned", None)

\* python rotate_secrets.py
RotateSecrets ==
  \E cwd \in Cwds, stamp \in Stamps, val \in Secrets :
    /\ Commit(rotate_secrets(Disk, cwd, stamp, val))
    /\ Ran("rotate", {}, "returned", None)

\* python generate_missing_secrets.py
GenerateSecrets ==
  \E cwd \in Cwds, val \in Secrets :
    /\ Commit(generate_missing_secrets(Disk, cwd, val))
    /\ Ran("generate", {}, "returned", None)

\* python Hydrator.py, with the answers typed at its two prompts
Scaffold ==
  \E cwd \in Cwds, scan \in {"y", "n"}, delete \in {"y", "n"} :
    LET r == scaffold_project(Disk, cwd, scan, delete)
    IN  /\ Commit(r.disk)
        /\ Ran("scaffold", {},
               IF r.raised THEN "FileExistsError" ELSE "returned", None)

\* python verify_full_stack.py: sys.exit(0) or sys.exit(1)
Probe ==
  \E reachable \in SUBSET Services, healthy \in BOOLEAN :
    /\ Commit(Disk)
    /\ Ran("probe", {},
           IF verify_full_stack(reachable, healthy) = 0 THEN "exit 0"
           ELSE "exit 1", None)

\* python Consolidator.py; the git commands that exit with an error in
\* the run: none, all of them (no repository, or no git), the first only,
\* the log only; the two merge commands end in `|| true`
Consolidate ==
  \E failing \in {{}, GitCommands \ {"merge", "merge --abort"},
                  {"rev-parse"}, {"log"}} :
    LET r == consolidate(Disk, failing)
    IN  /\ Commit(r.disk)
        /\ Ran("consolidate", {},
               IF r.raised = "no" THEN "returned" ELSE r.raised, r.ret)

\* the disks a first run can find: any of the required files there, src a
\* directory when process_data.py is in it, and at most a dump file with
\* one key pasted into it
Starts(presents) ==
  {[ledgerDir |-> s[1], ledgerFile |-> s[2], root |-> root,
    tree |-> [path \in ToolPaths |->
                IF path = <<"secrets_dump.txt">> THEN dump
                ELSE IF \E name \in present :
                          path = required_files(root)[name]
                THEN Foreign(path[Len(path)])
                ELSE IF path = root \o <<"src">> THEN src
                ELSE NoFile]] :
     s \in {<<FALSE, NoFile>>, <<TRUE, NoFile>>, <<TRUE, Garbage>>,
            <<TRUE, save(SampleChain)>>},
     root \in Places, present \in presents,
     src \in {NoFile, Directory, Foreign("src")},
     dump \in {NoFile, Text(<<Line("GITHUB_TOKEN", "ghp")>>)}}

InitOn(presents) ==
  /\ \E s \in Starts(presents) :
       /\ s.root = LEDGER_DIR => s.ledgerDir
       /\ exists(s.tree, required_files(s.root)["src/process_data.py"])
            => s.tree[s.root \o <<"src">>] = Directory
       /\ dir = s.ledgerDir
       /\ file = s.ledgerFile
       /\ tree = s.tree
       /\ tool = [NoTool EXCEPT !.root = s.root]
  /\ chain = [p \in Procs |-> <<>>]
  /\ pc = [p \in Procs |-> "none"]
  /\ last = [op |-> "none", p |-> 1, role |-> NoArg, user |-> NoArg,
             ret |-> FALSE, pre |-> <<>>, preDir |-> FALSE, preFile |-> NoFile]
  /\ granted = {}
  /\ saved = <<>>
  /\ loaded = [p \in Procs |-> 0]
  /\ inv = [p \in Procs |-> NoInv]
  /\ started = 0
  /\ blk = NoBlock

\* nothing of the required files is there, or all of it
InitTools == InitOn({{}, DOMAIN Relative})

NextTools ==
  \/ BuildRepair
  \/ RotateSecrets
  \/ GenerateSecrets
  \/ Scaffold
  \/ Probe
  \/ Consolidate

SpecTools == InitTools /\ [][NextTools]_vars

\* any of the required files is there
InitBuild == InitOn(SUBSET DOMAIN Relative)

NextBuild == BuildRepair

SpecBuild == InitBuild /\ [][NextBuild]_vars

\* the names of the required files, and those absent from the disk d
Required == DOMAIN Relative
Absent(d, root) == {name \in Required : d[root \o Relative[name]].state = "missing"}

C23_AllFiveExistAfterRun ==
  tool.op = "build" =>
    /\ \A name \in Required \ Absent(tool.pre, tool.root) :
         Disk[tool.root \o Relative[name]] = tool.pre[tool.root \o Relative[name]]
    /\ tool.made \subseteq Absent(tool.pre, tool.root)
    /\ Absent(Disk, tool.root) = {}
    /\ tool.prev = "build" => tool.made = {}

(***************************************************************************)
(* C23 amended: a file that exists is never rewritten, only files the      *)
(* audit found absent are generated, and a second run right after a first  *)
(* generates nothing.  A run that returns has generated every absent file, *)
(* so that all five exist.  A run does not return exactly when             *)
(* src/process_data.py is absent and src exists without being a            *)
(* directory: mkdir raises FileExistsError, the files handled before       *)
(* (requirements.txt, package.json, heady-manager.js) have been generated, *)
(* src/process_data.py and an absent render.yaml have not.                 *)
(***************************************************************************)
C23_RepairGeneratesAbsentOnly ==
  tool.op = "build" =>
    LET pre == tool.pre
        root == tool.root
        at(name) == root \o Relative[name]
        early == {RequiredNames[i] : i \in 1..3}
    IN  /\ \A name \in Required \ Absent(pre, root) : Disk[at(name)] = pre[at(name)]
        /\ tool.made \subseteq Absent(pre, root)
        /\ \A name \in tool.made : Disk[at(name)] = Generated(name)
        /\ \A name \in Absent(pre, root) \ tool.made : Disk[at(name)] = NoFile
        /\ \A path \in AllPaths \ ({at(name) : name \in Required}
                                     \cup {root \o <<"src">>}) :
             Disk[path] = pre[path]
        /\ tool.out = "returned" =>
             tool.made = Absent(pre, root) /\ Absent(Disk, root) = {}
        /\ tool.out = "FileExistsError" <=>
             /\ "src/process_data.py" \in Absent(pre, root)
             /\ pre[root \o <<"src">>].state \notin {"missing", "dir"}
        /\ tool.out = "FileExistsError" =>
             tool.made = Absent(pre, root) \cap early
        /\ tool.prev = "build" => tool.made = {}

\* a second run after a run that generated some of the files and kept the
\* others
C23_Witness ==
  /\ tool.op = "build"
  /\ tool.prev = "build"
  /\ tool.out = "returned"
  /\ \E kept, made \in Required :
       /\ Disk[tool.root \o Relative[kept]].doc[1].value = "kept"
       /\ Disk[tool.root \o Relative[made]] = Generated(made)

(***************************************************************************)
(* C24: Consolidator.consolidate always ends by writing one timestamped    *)
(* report file and returning its path, in a git repository and outside     *)
(* of one, and a git command that fails never ends the run.                *)
(***************************************************************************)
C24_ConsolidateWritesReport ==
  tool.op = "consolidate" =>
    /\ tool.out = "returned"
    /\ tool.ret # None
    /\ exists(Disk, tool.ret)
    /\ ~exists(tool.pre, tool.ret)

(***************************************************************************)
(* C31: an initialization that finds a well-formed ledger file writes      *)
(* nothing: the directory and the file are what they were before it, and   *)
(* the blocks in memory have the values of the file, the timestamps        *)
(* included, not the time of the initialization.                           *)
(***************************************************************************)
C31_InitializationDoesNotWrite ==
  Reloaded =>
    /\ dir = last.preDir
    /\ file = last.preFile
    /\ pc[last.p] = "ready"
    /\ chain[last.p] = Persisted(last.preFile)

\* an initialization has read a file of three blocks, the last one mined
C31_Witness ==
  /\ Reloaded
  /\ Len(chain[last.p]) = 3
  /\ chain[last.p][3].nonce > 0
  /\ file = last.preFile

(***************************************************************************)
(* C32: verify(role, user) returns true only if an earlier grant was made  *)
(* with exactly that role and exactly that user: a grant for another       *)
(* (role, user) pair never makes verify true for this pair.                *)
(***************************************************************************)
C32_VerifyOnlyExactGrants ==
  (last.op = "verify" /\ last.ret) => <<last.role, last.user>> \in granted

(***************************************************************************)
(* The secret tools step by step: rotate_secrets statement by statement,   *)
(* its open(env_path, 'w') and its write as two steps, and                 *)
(* generate_missing_secrets as one step, on .env.local files as an         *)
(* operator may have left them.                                            *)
(***************************************************************************)

\* .env.local is nowhere, or it is in one of the places with one of the
\* contents: empty, a line of another key, a rotated key twice around
\* another key, two rotated keys in another order than secrets_config
InitSecrets ==
  /\ \E s \in {<<FALSE, NoFile>>, <<TRUE, save(SampleChain)>>} :
       dir = s[1] /\ file = s[2]
  /\ \/ tree = NoTree
     \/ \E pl \in Places,
           env \in {Text(<<>>),
                    Text(<<Line("PORT", "4100")>>),
                    Text(<<Line("JWT_SECRET_KEY", "old"),
                           Line("PORT", "4100"),
                           Line("JWT_SECRET_KEY", "older")>>),
                    Text(<<Line("ENCRYPTION_KEY", "old"),
                           Line("JWT_SECRET_KEY", "old")>>)} :
          /\ pl = <<>> \/ dir
          /\ tree = [NoTree EXCEPT ![pl \o <<".env.local">>] = env]
  /\ tool = NoTool
  /\ chain = [p \in Procs |-> <<>>]
  /\ pc = [p \in Procs |-> "none"]
  /\ last = [op |-> "none", p |-> 1, role |-> NoArg, user |-> NoArg,
             ret |-> FALSE, pre |-> <<>>, preDir |-> FALSE, preFile |-> NoFile]
  /\ granted = {}
  /\ saved = <<>>
  /\ loaded = [p \in Procs |-> 0]
  /\ inv = [p \in Procs |-> NoInv]
  /\ started = 0
  /\ blk = NoBlock

\* no run of a tool is under way
Idle == tool.out \in {"none", "returned"}

\* the run of rotate_secrets under way is at position pos
Rotating(pos, content) ==
  /\ tool' = [tool EXCEPT !.out = pos, !.content = content]
  /\ UNCHANGED <<chain, pc, last, granted, saved, loaded, inv, blk, started>>

\* lines 13-16: env_path = os.path.join(os.getcwd(), '.env.local'), and
\* the return when nothing is there; one token source for the run
RotateStart ==
  /\ Idle
  /\ started < MaxStarts
  /\ started' = started + 1
  /\ \E cwd \in Cwds, val \in Secrets :
       tool' = [op |-> "rotate", root |-> tool.root, pre |-> Disk,
                made |-> {}, ret |-> None, prev |-> tool.op,
                out |-> IF exists(Disk, cwd \o <<".env.local">>)
                        THEN "exists" ELSE "returned",
                cwd |-> cwd, stamp |-> "none", val |-> val,
                content |-> <<>>, i |-> 1]
  /\ Commit(Disk)
  /\ UNCHANGED <<chain, pc, last, granted, saved, loaded, inv, blk>>

\* lines 19-21: the backup under the name of the current second
RotateBackup ==
  /\ tool.out = "exists"
  /\ \E stamp \in Stamps :
       /\ Commit(copy2(Disk, tool.cwd \o <<".env.local">>,
                       tool.cwd \o <<BackupName[stamp]>>))
       /\ tool' = [tool EXCEPT !.out = "copied", !.stamp = stamp]
  /\ UNCHANGED <<chain, pc, last, granted, saved, loaded, inv, blk, started>>

\* lines 32-36: content = f.read(); new_content = content
RotateRead ==
  /\ tool.out = "copied"
  /\ Commit(Disk)
  /\ Rotating("read", Disk[tool.cwd \o <<".env.local">>].doc)

\* lines 38-50: one round of the loop over secrets_config
RotateKey ==
  /\ tool.out = "read"
  /\ tool.i <= Len(RotatedKeys)
  /\ Commit(Disk)
  /\ tool' = [tool EXCEPT
                !.content = rotate_key(tool.content, RotatedKeys[tool.i],
                                       tool.val),
                !.i = tool.i + 1]
  /\ UNCHANGED <<chain, pc, last, granted, saved, loaded, inv, blk, started>>

\* line 52: open(env_path, 'w') empties the file
RotateOpen ==
  /\ tool.out = "read"
  /\ tool.i > Len(RotatedKeys)
  /\ Commit(write(Disk, tool.cwd \o <<".env.local">>, Text(<<>>)))
  /\ Rotating("opened", tool.content)

\* lines 53-56: f.write(new_content), and the function returns
RotateWrite ==
  /\ tool.out = "opened"
  /\ Commit(write(Disk, tool.cwd \o <<".env.local">>, Text(tool.content)))
  /\ Rotating("returned", tool.content)

\* python generate_missing_secrets.py, while no rotation is under way
GenerateBetween == Idle /\ GenerateSecrets

NextSecrets ==
  \/ RotateStart
  \/ RotateBackup
  \/ RotateRead
  \/ RotateKey
  \/ RotateOpen
  \/ RotateWrite
  \/ GenerateBetween

SpecSecrets == InitSecrets /\ [][NextSecrets]_vars

\* the positions of the lines of a key, and the keys of secrets_config
LinesOf(lines, key) == {i \in DOMAIN lines : lines[i].key = key}

(***************************************************************************)
(* C33: rotate_secrets copies .env.local to the timestamped backup before  *)
(* it rewrites .env.local: at every point of a run at which .env.local is  *)
(* not what the run found, the backup of this run holds what the run       *)
(* found, and nothing but these two files is touched.  When .env.local is  *)
(* absent the run returns and no file has been created or changed.         *)
(***************************************************************************)
C33_BackupBeforeRewrite ==
  tool.op = "rotate" =>
    LET env_path == tool.cwd \o <<".env.local">>
        backups == {tool.cwd \o <<BackupName[t]>> : t \in Stamps}
    IN  /\ Disk[env_path] # tool.pre[env_path] =>
             /\ tool.stamp \in Stamps
             /\ Disk[tool.cwd \o <<BackupName[tool.stamp]>>] = tool.pre[env_path]
        /\ ~exists(tool.pre, env_path) => tool.out = "returned" /\ Disk = tool.pre
        /\ \A path \in AllPaths \ ({env_path} \cup backups) :
             Disk[path] = tool.pre[path]
        /\ \A path \in backups :
             Disk[path] \in {tool.pre[path], tool.pre[env_path]}

\* the file has been emptied by open and not been written yet; the backup
\* has the three lines the run found
C33_Witness ==
  /\ tool.op = "rotate"
  /\ tool.out = "opened"
  /\ Len(tool.pre[tool.cwd \o <<".env.local">>].doc) = 3
  /\ Disk[tool.cwd \o <<".env.local">>] = Text(<<>>)
  /\ Disk[tool.cwd \o <<BackupName[tool.stamp]>>]
       = tool.pre[tool.cwd \o <<".env.local">>]

(***************************************************************************)
(* C34: when rotate_secrets has completed on an existing .env.local, each  *)
(* of the four configured keys has a KEY=value line, every line of such a  *)
(* key holds the value generated in this run, a key that was present is    *)
(* replaced in place, the keys that were missing are appended in the       *)
(* order of the configuration, and every other line is unchanged.          *)
(***************************************************************************)
C34_RotatedInPlace ==
  (tool.op = "rotate" /\ tool.out = "returned"
     /\ exists(tool.pre, tool.cwd \o <<".env.local">>)) =>
    LET old == tool.pre[tool.cwd \o <<".env.local">>].doc
        new == Disk[tool.cwd \o <<".env.local">>].doc
        missing == SelectSeq(RotatedKeys, LAMBDA k : LinesOf(old, k) = {})
        Rotated == {RotatedKeys[i] : i \in DOMAIN RotatedKeys}
    IN  /\ Len(new) = Len(old) + Len(missing)
        /\ \A i \in DOMAIN old :
             /\ new[i].key = old[i].key
             /\ old[i].key \notin Rotated => new[i] = old[i]
        /\ \A j \in DOMAIN missing : new[Len(old) + j].key = missing[j]
        /\ \A k \in Rotated :
             /\ LinesOf(new, k) # {}
             /\ \A i \in LinesOf(new, k) : new[i].value = tool.val

\* a key that was there twice is replaced twice, the line between is kept
\* and the three other keys are appended
C34_Witness ==
  /\ tool.op = "rotate"
  /\ tool.out = "returned"
  /\ exists(tool.pre, tool.cwd \o <<".env.local">>)
  /\ LET new == Disk[tool.cwd \o <<".env.local">>].doc
     IN  /\ Len(new) = 6
         /\ new[1] = Line("JWT_SECRET_KEY", tool.val)
         /\ new[2] = Line("PORT", "4100")
         /\ new[3] = Line("JWT_SECRET_KEY", tool.val)

(***************************************************************************)
(* C35: when .env.local exists, generate_missing_secrets keeps every line  *)
(* of it and appends the generated secrets whose keys it lacks; when the   *)
(* file does not exist it writes the six generated KEY=value lines.        *)
(***************************************************************************)
C35_MissingSecretsAppended ==
  tool.op = "generate" =>
    \E cwd \in Places :
      LET env_path == cwd \o <<".env.local">>
          old == tool.pre[env_path].doc
          new == Disk[env_path].doc
      IN  /\ \A path \in AllPaths \ {env_path} : Disk[path] = tool.pre[path]
          /\ exists(Disk, env_path)
          /\ \A i \in DOMAIN SecretNames : LinesOf(new, SecretNames[i]) # {}
          /\ IF exists(tool.pre, env_path)
             THEN /\ Len(new) >= Len(old)
                  /\ \A i \in DOMAIN old : new[i] = old[i]
                  /\ \A i \in (DOMAIN new) \ (DOMAIN old) :
                       LinesOf(old, new[i].key) = {}
             ELSE /\ Len(new) = Len(SecretNames)
                  /\ \A i \in DOMAIN new : new[i].key = SecretNames[i]

(***************************************************************************)
(* The health prober step by step: main() of verify_full_stack.py check    *)
(* by check, what each connection attempt does being drawn when it is      *)
(* made.                                                                   *)
(***************************************************************************)
\* services, in the order of the list main goes through
ServiceList == <<"PostgreSQL", "Redis", "IDE Backend">>

\* int(os.getenv("PORT", "4100")) raises ValueError; env is the value of
\* the variable, <<>> when it is not set
int_raises(env) ==
  LET text == IF env = <<>> THEN <<"4", "1", "0", "0">> ELSE env
  IN  \E i \in DOMAIN text :
        \A k \in DOMAIN DecDigits : text[i] # DecDigits[k]

\* variant: the exception of the socket call is not caught
check_port_unguarded(outcome) ==
  [ret |-> outcome = "open", raised |-> outcome = "raises"]

\* check_port: True when connect_ex returned 0; except Exception: False
check_port(outcome) == [ret |-> outcome = "open", raised |-> FALSE]

\* the run of the prober goes on; it touches no file
Probing(t) ==
  /\ tool' = t
  /\ Commit(Disk)
  /\ UNCHANGED <<chain, pc, last, granted, saved, loaded, inv, blk>>

\* lines 39-50, when no run of the prober is under way: PORT is not set,
\* a numeral, or not a numeral; a ValueError of int (line 43) ends the
\* process with status 1
ProbeStart ==
  /\ tool.out \in {"none", "exit 0", "exit 1"}
  /\ started < MaxStarts
  /\ started' = started + 1
  /\ \E env \in {<<>>, <<"8", "0", "8", "0">>, <<"a", "b", "c">>} :
       Probing([op |-> "probe", root |-> tool.root, pre |-> Disk,
                made |-> {}, ret |-> None, prev |-> tool.op,
                out |-> IF int_raises(env) THEN "exit 1"
                        ELSE "ports",
                port |-> env, i |-> 1, all_passed |-> TRUE,
                checked |-> <<>>, http |-> "none"])

\* lines 53-55: one round of `if not check_port(...): all_passed = False`;
\* sock.connect_ex returns 0, returns an error number, or the socket call
\* raises
CheckPort ==
  /\ tool.out = "ports"
  /\ tool.i <= Len(ServiceList)
  /\ \E outcome \in {"open", "refused", "raises"} :
       LET r == check_port(outcome)
       IN  Probing([tool EXCEPT
                      !.checked = Append(@, <<ServiceList[tool.i], outcome>>),
                      !.i = @ + 1,
                      !.all_passed = IF r.raised \/ r.ret THEN @ ELSE FALSE,
                      !.out = IF r.raised THEN "exit 1" ELSE @])
  /\ UNCHANGED started

\* lines 57-61: the health check, whose answer is dropped; requests.get
\* answers 200, answers another status, raises ConnectionError, raises
\* another exception, and check_http returns True for status 200 and False
\* from both except clauses
CheckHttp ==
  /\ tool.out = "ports"
  /\ tool.i > Len(ServiceList)
  /\ \E outcome \in {"200", "500", "ConnectionError", "Timeout"} :
       LET r == [ret |-> outcome = "200", raised |-> FALSE]
       IN  Probing([tool EXCEPT
                      !.http = outcome,
                      !.out = IF r.raised THEN "exit 1" ELSE "http"])
  /\ UNCHANGED started

\* lines 63-69: sys.exit(0) or sys.exit(1)
ProbeExit ==
  /\ tool.out = "http"
  /\ Probing([tool EXCEPT !.out = IF tool.all_passed THEN "exit 0"
                                  ELSE "exit 1"])
  /\ UNCHANGED started

NextProbe ==
  \/ ProbeStart
  \/ CheckPort
  \/ CheckHttp
  \/ ProbeExit

SpecProbe == InitCli /\ [][NextProbe]_vars

(***************************************************************************)
(* C36: main of verify_full_stack exits with status 0 exactly when all     *)
(* three port checks succeed and with status 1 otherwise; once the port    *)
(* checks have begun each of the three is made, in order, also after a     *)
(* refused or a raising one; a run that made them makes the health check,  *)
(* whose outcome does not enter the exit status; no file is touched.       *)
(***************************************************************************)
C36_ExitStatus ==
  tool.op = "probe" =>
    /\ tool.out \in {"exit 0", "exit 1"} =>
         (tool.out = "exit 0" <=>
            /\ Len(tool.checked) = Len(ServiceList)
            /\ \A i \in DOMAIN tool.checked : tool.checked[i][2] = "open")
    /\ tool.out = "exit 0" => tool.http # "none"
    /\ tool.out = "exit 1" =>
         \/ tool.checked = <<>> /\ int_raises(tool.port)
         \/ Len(tool.checked) = Len(ServiceList) /\ tool.http # "none"
    /\ \A i \in DOMAIN tool.checked : tool.checked[i][1] = ServiceList[i]
    /\ tool.out \in {"http", "exit 0"} => Len(tool.checked) = Len(ServiceList)
    /\ Disk = tool.pre

\* the first check raised, the two after it were made and found the ports
\* open, the health check answered 200: status 1
C36_Witness ==
  /\ tool.op = "probe"
  /\ tool.out = "exit 1"
  /\ Len(tool.checked) = 3
  /\ tool.checked[1][2] = "raises"
  /\ tool.checked[2][2] = "open"
  /\ tool.checked[3][2] = "open"
  /\ tool.http = "200"

====
